---- MODULE Spec2Model ----
(***************************************************************************)
(* repocutter: stream surgery on Subversion dump files                     *)
(* (src/cutter/repocutter.go).                                             *)
(*                                                                         *)
(* A dump stream is modelled byte for byte: a byte is a one-character      *)
(* string and every buffer of the program ([]byte, string) is a sequence   *)
(* of bytes.  The line-buffered source, the property codec, the record     *)
(* reader and the subcommands are operators over these sequences; each     *)
(* iteration of a subcommand's main loop is one action.                    *)
(***************************************************************************)
EXTENDS Integers, Sequences, FiniteSets, TLC

VARIABLES
    input,      \* the bytes of the stream the command reads
    lbs,        \* LineBufferedSource: pos, Linebuffer, linenumber, st
    out,        \* the bytes written to os.Stdout so far
    pc,         \* where the command stands
    cmd,        \* the subcommand, its selection and its arguments
    ds,         \* DumpfileSource: Revision, Index
    rp,         \* locals of the running loop: emit, stash, nodecount
    hk,         \* what the hooks of the command remember between calls
    emitted,    \* history: the records written, piece by piece
    dump,       \* history: the structure the input was written from
    run         \* history: the runs made so far in this session

vars == <<input, lbs, out, pc, cmd, ds, rp, hk, emitted, dump, run>>

(***************************************************************************)
(* Bounds of the model.                                                    *)
(***************************************************************************)
MaxRevs == 3          \* revisions in an input dump
MaxRevNum == 3        \* largest revision number in an input dump
MaxPropEntries == 3   \* entries of a free-standing property block

(***************************************************************************)
(* Byte strings.                                                           *)
(***************************************************************************)
linesep == <<"\n">>
MaxInt32 == 2147483647

Digits == <<"0","1","2","3","4","5","6","7","8","9">>

IsDigit(c) == \E i \in 1..10 : Digits[i] = c

DigitVal(c) == (CHOOSE i \in 1..10 : Digits[i] = c) - 1

RECURSIVE Itoa(_)
Itoa(n) == IF n < 10 THEN <<Digits[n + 1]>>
           ELSE Itoa(n \div 10) \o <<Digits[(n % 10) + 1]>>

RECURSIVE AtoiVal(_, _)
AtoiVal(s, acc) == IF s = <<>> THEN acc
                   ELSE AtoiVal(Tail(s), acc * 10 + DigitVal(Head(s)))

\* strconv.Atoi: the value and whether the text was a number
Atoi(s) == IF s # <<>> /\ \A i \in 1..Len(s) : IsDigit(s[i])
           THEN [ok |-> TRUE, val |-> AtoiVal(s, 0)]
           ELSE [ok |-> FALSE, val |-> 0]

HasPrefix(s, p) == Len(s) >= Len(p) /\ SubSeq(s, 1, Len(p)) = p

HasPrefixAt(s, i, p) == i + Len(p) - 1 <= Len(s) /\ SubSeq(s, i, i + Len(p) - 1) = p

\* bytes.Index from position i on: the position of the first occurrence of
\* the non-empty p, 0 if there is none
IndexFrom(s, p, i) ==
    LET last == Len(s) - Len(p) + 1
        hit(k) == s[k] = p[1] /\ SubSeq(s, k, k + Len(p) - 1) = p
    IN IF \E k \in i..last : hit(k)
       THEN CHOOSE k \in i..last : hit(k) /\ \A j \in i..(k - 1) : ~hit(j)
       ELSE 0

Index(s, p) == IndexFrom(s, p, 1)

\* bytes.IndexByte from position i on
IndexByte(s, c, i) ==
    IF \E k \in i..Len(s) : s[k] = c
    THEN CHOOSE k \in i..Len(s) : s[k] = c /\ \A j \in i..(k - 1) : s[j] # c
    ELSE 0

BytesContains(s, p) == Index(s, p) # 0

IsSpace(c) == c \in {" ", "\n", "\t", "\r"}

\* bytes.Fields: the maximal runs of non-space bytes
RECURSIVE FieldsFrom(_, _, _)
FieldsFrom(s, i, cur) ==
    IF i > Len(s) THEN (IF cur = <<>> THEN <<>> ELSE <<cur>>)
    ELSE IF IsSpace(s[i])
         THEN (IF cur = <<>> THEN <<>> ELSE <<cur>>) \o FieldsFrom(s, i + 1, <<>>)
         ELSE FieldsFrom(s, i + 1, Append(cur, s[i]))

Fields(s) == FieldsFrom(s, 1, <<>>)

\* strings.TrimRight(s, "\n")
RECURSIVE TrimRightNl(_)
TrimRightNl(s) == IF s # <<>> /\ s[Len(s)] = "\n" THEN TrimRightNl(SubSeq(s, 1, Len(s) - 1))
                  ELSE s

HasSuffix(s, p) == Len(s) >= Len(p) /\ SubSeq(s, Len(s) - Len(p) + 1, Len(s)) = p

\* strings.Split(s, sep) for a non-empty sep
RECURSIVE SplitFrom(_, _, _)
SplitFrom(s, sep, i) ==
    LET k == IndexFrom(s, sep, i)
    IN IF k = 0 THEN <<SubSeq(s, i, Len(s))>>
       ELSE <<SubSeq(s, i, k - 1)>> \o SplitFrom(s, sep, k + Len(sep))

Split(s, sep) == SplitFrom(s, sep, 1)

\* strings.Join(parts, sep)
RECURSIVE Join(_, _)
Join(parts, sep) ==
    IF parts = <<>> THEN <<>>
    ELSE IF Len(parts) = 1 THEN parts[1]
    ELSE parts[1] \o sep \o Join(Tail(parts), sep)

(***************************************************************************)
(* Header names and other literals of the program.                         *)
(***************************************************************************)
sRevisionNumber == <<"R","e","v","i","s","i","o","n","-","n","u","m","b","e","r",":">>
sPropContentLength == <<"P","r","o","p","-","c","o","n","t","e","n","t","-","l","e","n","g","t","h",":">>
sContentLength == <<"C","o","n","t","e","n","t","-","l","e","n","g","t","h",":">>
sTextContentLength == <<"T","e","x","t","-","c","o","n","t","e","n","t","-","l","e","n","g","t","h",":">>
sPropContentLengthHd == <<"P","r","o","p","-","c","o","n","t","e","n","t","-","l","e","n","g","t","h">>
sPropsEnd == <<"P","R","O","P","S","-","E","N","D">>
sNode == <<"N","o","d","e","-">>
sNodePath == <<"N","o","d","e","-","p","a","t","h">>
sNodeKind == <<"N","o","d","e","-","k","i","n","d">>
sNodeAction == <<"N","o","d","e","-","a","c","t","i","o","n">>
sNodeCopyfromRev == <<"N","o","d","e","-","c","o","p","y","f","r","o","m","-","r","e","v">>
sNodeCopyfromPath == <<"N","o","d","e","-","c","o","p","y","f","r","o","m","-","p","a","t","h">>
sTextContentMd5 == <<"T","e","x","t","-","c","o","n","t","e","n","t","-","m","d","5",":">>
sTextContentSha1 == <<"T","e","x","t","-","c","o","n","t","e","n","t","-","s","h","a","1",":">>
sTextCopySourceMd5 == <<"T","e","x","t","-","c","o","p","y","-","s","o","u","r","c","e","-","m","d","5",":">>
sTextCopySourceSha1 == <<"T","e","x","t","-","c","o","p","y","-","s","o","u","r","c","e","-","s","h","a","1",":">>
sPropContent == <<"P","r","o","p","-","c","o","n","t","e","n","t">>
sContent == <<"C","o","n","t","e","n","t">>
sTextContent == <<"T","e","x","t","-","c","o","n","t","e","n","t">>
sLengthColon == <<"-","l","e","n","g","t","h",":">>
sLink == <<"l","i","n","k"," ">>
sSvnLog == <<"s","v","n",":","l","o","g">>
sSvnAuthor == <<"s","v","n",":","a","u","t","h","o","r">>
sSvnMergeinfo == <<"s","v","n",":","m","e","r","g","e","i","n","f","o">>
sTrunk == <<"t","r","u","n","k">>
sTags == <<"t","a","g","s">>
sBranches == <<"b","r","a","n","c","h","e","s">>
sNoAuthor == <<"(","n","o"," ","a","u","t","h","o","r",")">>
sSyntheticLog == <<"S","y","n","t","h","e","t","i","c"," ","b","r","a","n","c","h","-","s","t","r","u","c","t","u","r","e"," ","c","r","e","a","t","i","o","n",".","\n">>
sRevisionIs == <<"R","e","v","i","s","i","o","n"," ","i","s"," ">>
sFilePathIs == <<","," ","f","i","l","e"," ","p","a","t","h"," ","i","s"," ">>
sSwapNodeTail == <<"\n","N","o","d","e","-","k","i","n","d",":"," ","d","i","r","\n","N","o","d","e","-","a","c","t","i","o","n",":"," ","a","d","d","\n","P","r","o","p","-","c","o","n","t","e","n","t","-","l","e","n","g","t","h",":"," ","1","0","\n","C","o","n","t","e","n","t","-","l","e","n","g","t","h",":"," ","1","0","\n","\n">>

(***************************************************************************)
(* LineBufferedSource: line-buffered input with one line of pushback.      *)
(* pos is the index in input of the next byte of the underlying reader;    *)
(* st is "ok" while the process runs, "fatal" once it has exited with      *)
(* status 1 and "hang" once a read can never complete.  An operation       *)
(* applied to a source that is not "ok" does nothing.  overrun is a history *)
(* field: it becomes TRUE when Peek, Push or Read is called while the       *)
(* pushback slot holds a line, the case the asserts commented out in Peek   *)
(* and Push exclude and Read croaks on.                                     *)
(***************************************************************************)
NewLineBufferedSource ==
    [pos |-> 1, Linebuffer |-> <<>>, linenumber |-> 0, st |-> "ok", overrun |-> FALSE]

\* bufio.Reader.ReadBytes('\n'): the bytes up to and including the next
\* newline, or what is left of the stream together with io.EOF
ReadBytes(l) ==
    LET nl == IndexByte(input, "\n", l.pos)
    IN IF nl = 0 THEN [data |-> SubSeq(input, l.pos, Len(input)), eof |-> TRUE,
                       pos |-> Len(input) + 1]
       ELSE [data |-> SubSeq(input, l.pos, nl), eof |-> FALSE, pos |-> nl + 1]

Readline(l) ==
    IF l.st # "ok" THEN [l |-> l, line |-> <<>>]
    ELSE IF Len(l.Linebuffer) # 0
    THEN [l |-> [l EXCEPT !.Linebuffer = <<>>], line |-> l.Linebuffer]
    ELSE LET r == ReadBytes(l)
         IN [l |-> [l EXCEPT !.pos = r.pos, !.linenumber = @ + 1],
             line |-> IF r.eof THEN <<>> ELSE r.data]

Require(l, prefix) ==
    LET r == Readline(l)
    IN IF l.st = "ok" /\ ~HasPrefix(r.line, prefix)
       THEN [l |-> [r.l EXCEPT !.st = "fatal"], line |-> <<>>]
       ELSE r

CountNl(s) == Cardinality({i \in 1..Len(s) : s[i] = "\n"})

Read(l, rlen) ==
    IF l.st # "ok" THEN [l |-> l, text |-> <<>>]
    ELSE IF Len(l.Linebuffer) # 0
    THEN [l |-> [l EXCEPT !.st = "fatal", !.overrun = TRUE], text |-> <<>>]
    ELSE IF l.pos + rlen - 1 > Len(input)
    THEN [l |-> [l EXCEPT !.pos = Len(input) + 1, !.st = "hang"], text |-> <<>>]
    ELSE LET text == SubSeq(input, l.pos, l.pos + rlen - 1)
         IN [l |-> [l EXCEPT !.pos = @ + rlen, !.linenumber = @ + CountNl(text)],
             text |-> text]

Peek(l) ==
    IF l.st # "ok" THEN [l |-> l, line |-> <<>>]
    ELSE LET r == ReadBytes(l)
         IN [l |-> [l EXCEPT !.pos = r.pos, !.linenumber = @ + 1, !.Linebuffer = r.data,
                             !.overrun = @ \/ Len(l.Linebuffer) # 0],
             line |-> r.data]

\* a Flush that hands the buffered line out and keeps it in the slot
Flush_kept(l) == [l |-> l, line |-> l.Linebuffer]

Flush(l) == [l |-> [l EXCEPT !.Linebuffer = <<>>], line |-> l.Linebuffer]

\* a Push that loses the line
Push_lost(l, line) == l

Push(l, line) ==
    [l EXCEPT !.Linebuffer = line, !.overrun = @ \/ Len(l.Linebuffer) # 0]

HasLineBuffered(l) == Len(l.Linebuffer) # 0

(***************************************************************************)
(* Properties: the property block of a revision or of a node.              *)
(* properties is the map from key to value, propkeys the K keys in the     *)
(* order read, propdelkeys the D keys in the order read.                   *)
(***************************************************************************)
EmptyProperties == [properties |-> <<>>, propkeys |-> <<>>, propdelkeys |-> <<>>]

MapSet(m, k, v) == [x \in (DOMAIN m) \cup {k} |-> IF x = k THEN v ELSE m[x]]

MapDelete(m, k) == [x \in (DOMAIN m) \ {k} |-> m[x]]

RECURSIVE NewPropertiesLoop(_, _)
NewPropertiesLoop(l, props) ==
    LET Deleted(r2) ==
            NewPropertiesLoop(r2.l, [props EXCEPT !.propdelkeys = Append(@, TrimRightNl(r2.line))])
        Entry(key, r5, value) ==
            NewPropertiesLoop(r5.l, [props EXCEPT !.properties = MapSet(@, key, value),
                                                  !.propkeys = Append(@, key)])
        Value(key, r4) == Entry(key, Require(r4.l, linesep), r4.text)
        Length(key, r3, f) ==
            IF r3.l.st = "ok" /\ Len(f) < 2
            THEN [l |-> [r3.l EXCEPT !.st = "fatal"], props |-> props]
            ELSE Value(key, Read(r3.l, IF Len(f) >= 2 THEN Atoi(f[2]).val ELSE 0))
        ValueHeader(key, r3) == Length(key, r3, Fields(r3.line))
        Key(r2) == ValueHeader(TrimRightNl(r2.line), Require(r2.l, <<"V">>))
        Peeked(pk) ==
            IF HasPrefix(pk.line, sPropsEnd) THEN [l |-> Flush(pk.l).l, props |-> props]
            ELSE IF HasPrefix(pk.line, <<"D", " ">>)
            THEN Deleted(Readline(Require(pk.l, <<"D">>).l))
            ELSE Key(Readline(Require(pk.l, <<"K">>).l))
    IN IF l.st # "ok" THEN [l |-> l, props |-> props] ELSE Peeked(Peek(l))

NewProperties(l) == NewPropertiesLoop(l, EmptyProperties)

RECURSIVE StringerKeys(_, _)
StringerKeys(props, keys) ==
    IF keys = <<>> THEN <<>>
    ELSE LET key == Head(keys)
             val == IF key \in DOMAIN props.properties THEN props.properties[key]
                    ELSE <<>>
         IN <<"K", " ">> \o Itoa(Len(key)) \o linesep
            \o key \o linesep
            \o <<"V", " ">> \o Itoa(Len(val)) \o linesep
            \o val \o linesep
            \o StringerKeys(props, Tail(keys))

\* a serialization that leaves the deletion markers out
StringerDelKeys_none(keys) == <<>>

RECURSIVE StringerDelKeys(_)
StringerDelKeys(keys) ==
    IF keys = <<>> THEN <<>>
    ELSE <<"D", " ">> \o Itoa(Len(Head(keys))) \o linesep
         \o Head(keys) \o linesep
         \o StringerDelKeys(Tail(keys))

Stringer(props) ==
    StringerKeys(props, props.propkeys) \o StringerDelKeys(props.propdelkeys)
    \o sPropsEnd \o linesep

PropsContains(props, key) == key \in DOMAIN props.properties

(***************************************************************************)
(* SubversionRange: a polyrange of revision numbers, each interval a pair  *)
(* <<low, high>>.                                                          *)
(***************************************************************************)
RangeContains(s, rev) ==
    \E i \in 1..Len(s.intervals) :
        rev >= s.intervals[i][1] /\ rev <= s.intervals[i][2]

Upperbound(s) == s.intervals[Len(s.intervals)][2]

(***************************************************************************)
(* DumpfileSource: the readers of the dump format.                         *)
(***************************************************************************)
NewDumpfileSource == [Revision |-> 0, Index |-> 0, EmittedRevisions |-> {}]

\* bytes.Replace(s, old, new, 1)
ReplaceFirst(s, old, new) ==
    LET i == Index(s, old)
    IN IF i = 0 THEN s
       ELSE SubSeq(s, 1, i - 1) \o new \o SubSeq(s, i + Len(old), Len(s))

NilRevmap == <<>>

\* a Go map of ints read at a key: the value, or 0 when the key is absent
RevmapGet(revmap, k) == IF k \in DOMAIN revmap THEN revmap[k] ELSE 0

RECURSIVE ReadUntilNextLoop(_, _, _, _, _)
ReadUntilNextLoop(l, prefix, hasmap, revmap, stash) ==
    LET r == Readline(l)
    IN IF Len(r.line) = 0 THEN [l |-> r.l, stash |-> stash]
       ELSE IF HasPrefix(r.line, prefix) THEN [l |-> Push(r.l, r.line), stash |-> stash]
       ELSE LET f == Fields(r.line)
                hack == hasmap /\ HasPrefix(r.line, sNodeCopyfromRev \o <<":">>)
                old == IF Len(f) >= 2 THEN f[2] ELSE <<>>
                oldi == Atoi(old)
                line == IF hack /\ ~oldi.ok
                        THEN ReplaceFirst(r.line, old, Itoa(RevmapGet(revmap, oldi.val)))
                        ELSE r.line
            IN ReadUntilNextLoop(r.l, prefix, hasmap, revmap, stash \o line)

ReadUntilNext(l, prefix, hasmap, revmap) ==
    ReadUntilNextLoop(l, prefix, hasmap, revmap, <<>>)

\* a run of digits that ends with its first digit
DigitsEnd_one(data, j) == j

\* the end of the run of decimal digits that begins at position j
RECURSIVE DigitsEnd(_, _)
DigitsEnd(data, j) ==
    IF j + 1 <= Len(data) /\ IsDigit(data[j + 1]) THEN DigitsEnd(data, j + 1) ELSE j

\* the first position from i on where lit is followed by a byte of first:
\* the leftmost match of the regular expression lit[first][0-9]*
RECURSIVE NumberMatchFrom(_, _, _, _)
NumberMatchFrom(data, lit, first, i) ==
    LET k == IndexFrom(data, lit, i)
    IN IF k = 0 THEN 0
       ELSE IF k + Len(lit) <= Len(data) /\ data[k + Len(lit)] \in first THEN k
       ELSE NumberMatchFrom(data, lit, first, k + 1)

AnyDigit == {Digits[i] : i \in 1..10}

NonZeroDigit == {Digits[i] : i \in 2..10}

\* regexp.FindSubmatch of lit([1-9][0-9]*) or lit([0-9]+): the digits of
\* the leftmost match, or the empty sequence when nothing matches
FindNumber(data, lit, first) ==
    LET k == NumberMatchFrom(data, lit, first, 1)
    IN IF k = 0 THEN <<>>
       ELSE SubSeq(data, k + Len(lit), DigitsEnd(data, k + Len(lit)))

RECURSIVE SetLengthFrom(_, _, _, _)
SetLengthFrom(lit, data, val, i) ==
    LET k == NumberMatchFrom(data, lit, AnyDigit, i)
    IN IF k = 0 THEN SubSeq(data, i, Len(data))
       ELSE SubSeq(data, i, k + Len(lit) - 1) \o Itoa(val)
            \o SetLengthFrom(lit, data, val, DigitsEnd(data, k + Len(lit)) + 1)

\* a SetLength that leaves the data as it is
SetLength_kept(header, data, val) == data

\* SetLength: every match of (header-length:) ([0-9]+) gets the value val
SetLength(header, data, val) ==
    SetLengthFrom(header \o sLengthColon \o <<" ">>, data, val, 1)

\* regexp.ReplaceAll of lit.*\n by nothing
RECURSIVE RemoveToEol(_, _, _)
RemoveToEol(data, lit, i) ==
    LET k == IndexFrom(data, lit, i)
        nl == IndexByte(data, "\n", k + Len(lit))
    IN IF k = 0 \/ nl = 0 THEN SubSeq(data, i, Len(data))
       ELSE SubSeq(data, i, k - 1) \o RemoveToEol(data, lit, nl + 1)

stripChecksums(header) ==
    LET h1 == RemoveToEol(header, sTextContentMd5, 1)
        h2 == RemoveToEol(h1, sTextContentSha1, 1)
        h3 == RemoveToEol(h2, sTextCopySourceMd5, 1)
    IN RemoveToEol(h3, sTextCopySourceSha1, 1)

\* the set of one-digit keys say adds to EmittedRevisions for a text
SaidRevisions(text) ==
    LET m == FindNumber(text, sRevisionNumber \o <<" ">>, AnyDigit)
    IN IF m = <<>> THEN {} ELSE {<<m[1]>>}

RECURSIVE ReadUntilNextRevisionLoop(_, _, _)
ReadUntilNextRevisionLoop(l, contentLength, stash) ==
    LET r == Readline(l)
        isblank == r.line = linesep
        rd == IF isblank /\ contentLength > 0 THEN Read(r.l, contentLength)
              ELSE [l |-> r.l, text |-> <<>>]
        f == Fields(r.line)
        cl == IF HasPrefix(r.line, sContentLength)
              THEN (IF Len(f) >= 2 THEN Atoi(f[2]).val ELSE 0)
              ELSE IF isblank THEN 0 ELSE contentLength
    IN IF Len(r.line) = 0 THEN [l |-> r.l, stash |-> stash]
       ELSE IF ~isblank /\ HasPrefix(r.line, sRevisionNumber)
       THEN [l |-> Push(r.l, r.line), stash |-> stash]
       ELSE IF rd.l.st # "ok" THEN [l |-> rd.l, stash |-> stash]
       ELSE ReadUntilNextRevisionLoop(rd.l, cl, stash \o rd.text \o r.line)

ReadUntilNextRevision(l, contentLength) ==
    ReadUntilNextRevisionLoop(l, contentLength, <<>>)

\* the blank lines that follow the property block of a revision
RECURSIVE ReadBlankLines(_, _)
ReadBlankLines(l, stash) ==
    LET pk == Peek(l)
    IN IF l.st = "ok" /\ pk.line = linesep
       THEN ReadBlankLines(Readline(pk.l).l, stash \o pk.line)
       ELSE [l |-> pk.l, stash |-> stash]

\* the header lines of a node after the first, up to the blank line
RECURSIVE ReadNodeHeaderLoop(_, _, _)
ReadNodeHeaderLoop(l, emittedRevisions, header) ==
    LET r == Readline(l)
        m == FindNumber(r.line, sNodeCopyfromRev \o <<":", " ">>, NonZeroDigit)
        rq == Require(r.l, sNodeCopyfromPath)
    IN IF l.st # "ok" THEN [l |-> l, header |-> header]
       ELSE IF Len(r.line) = 0 THEN [l |-> [r.l EXCEPT !.st = "fatal"], header |-> header]
       ELSE IF m # <<>> /\ m \notin emittedRevisions
       THEN ReadNodeHeaderLoop(rq.l, emittedRevisions, header \o r.line \o rq.line)
       ELSE IF r.line = linesep THEN [l |-> r.l, header |-> header \o r.line]
       ELSE ReadNodeHeaderLoop(r.l, emittedRevisions, header \o r.line)

\* payload: the content of the first "hd: " in header, up to the end of
\* the line; ok is FALSE when there is none (a nil slice)
payload(hd, header) ==
    LET offs == Index(header, hd \o <<":", " ">>)
        start == offs + Len(hd) + 2
        end == IndexByte(header, "\n", start)
    IN IF offs = 0 THEN [ok |-> FALSE, val |-> <<>>]
       ELSE [ok |-> TRUE, val |-> SubSeq(header, start, end - 1)]

\* getHeader: the content of the first line of txt that begins with "hdr: "
getHeader(txt, hdr) ==
    LET lit == hdr \o <<":", " ">>
        starts == {k \in 1..Len(txt) : (k = 1 \/ txt[k - 1] = "\n") /\ HasPrefixAt(txt, k, lit)}
        k0 == CHOOSE k \in starts : \A j \in starts : k <= j
        nl == IndexByte(txt, "\n", k0)
    IN IF starts = {} THEN [ok |-> FALSE, val |-> <<>>]
       ELSE [ok |-> TRUE,
             val |-> SubSeq(txt, k0 + Len(lit), IF nl = 0 THEN Len(txt) ELSE nl - 1)]

(***************************************************************************)
(* Regular expressions.  The patterns of the model are of the form         *)
(* [^]literal[$]; for these regexp.Match and regexp.ReplaceAll are:        *)
(***************************************************************************)
RegexpAnchoredStart(pattern) == pattern # <<>> /\ Head(pattern) = "^"

RegexpAnchoredEnd(pattern) == pattern # <<>> /\ pattern[Len(pattern)] = "$"

RegexpLiteral(pattern) ==
    LET p1 == IF RegexpAnchoredStart(pattern) THEN Tail(pattern) ELSE pattern
    IN IF RegexpAnchoredEnd(p1) THEN SubSeq(p1, 1, Len(p1) - 1) ELSE p1

RegexpMatch(pattern, s) ==
    LET lit == RegexpLiteral(pattern)
    IN IF RegexpAnchoredStart(pattern) /\ RegexpAnchoredEnd(pattern) THEN s = lit
       ELSE IF RegexpAnchoredStart(pattern) THEN HasPrefix(s, lit)
       ELSE IF RegexpAnchoredEnd(pattern) THEN HasSuffix(s, lit)
       ELSE lit = <<>> \/ BytesContains(s, lit)

RECURSIVE ReplaceAllLiteral(_, _, _, _)
ReplaceAllLiteral(s, lit, repl, i) ==
    LET k == IndexFrom(s, lit, i)
    IN IF k = 0 THEN SubSeq(s, i, Len(s))
       ELSE SubSeq(s, i, k - 1) \o repl \o ReplaceAllLiteral(s, lit, repl, k + Len(lit))

RECURSIVE ReplaceAllEmpty(_, _, _)
ReplaceAllEmpty(s, repl, i) ==
    IF i > Len(s) THEN repl ELSE repl \o <<s[i]>> \o ReplaceAllEmpty(s, repl, i + 1)

RegexpReplaceAll(pattern, s, repl) ==
    LET lit == RegexpLiteral(pattern)
    IN IF RegexpAnchoredStart(pattern) /\ RegexpAnchoredEnd(pattern)
       THEN (IF s = lit THEN repl ELSE s)
       ELSE IF RegexpAnchoredStart(pattern)
       THEN (IF HasPrefix(s, lit) THEN repl \o SubSeq(s, Len(lit) + 1, Len(s)) ELSE s)
       ELSE IF RegexpAnchoredEnd(pattern)
       THEN (IF HasSuffix(s, lit) THEN SubSeq(s, 1, Len(s) - Len(lit)) \o repl ELSE s)
       ELSE IF lit = <<>> THEN ReplaceAllEmpty(s, repl, 1)
       ELSE ReplaceAllLiteral(s, lit, repl, 1)

MatchesAny(patterns, s) == \E i \in 1..Len(patterns) : RegexpMatch(patterns[i], s)

(***************************************************************************)
(* The hooks of the subcommands.  A property hook takes the command, what  *)
(* the hooks remember, the source and a property block and gives the block *)
(* back; a node hook takes the header, the serialized properties and the   *)
(* content of a node and gives the bytes to write for it.                  *)
(***************************************************************************)
\* a removal that removes nothing
RemoveFirst_none(seq, x) == seq

\* the sequence seq without its first element equal to x
RemoveFirst(seq, x) ==
    IF \E i \in 1..Len(seq) : seq[i] = x
    THEN LET k == CHOOSE i \in 1..Len(seq) : seq[i] = x /\ \A j \in 1..(i - 1) : seq[j] # x
         IN SubSeq(seq, 1, k - 1) \o SubSeq(seq, k + 1, Len(seq))
    ELSE seq

RenameAll(seq, old, new) == [i \in 1..Len(seq) |-> IF seq[i] = old THEN new ELSE seq[i]]

\* propdel, revhook: the body of its loop, for one property name
propdelOne(props, propname) ==
    [properties |-> MapDelete(props.properties, propname),
     propkeys |-> RemoveFirst(props.propkeys, propname),
     propdelkeys |-> RemoveFirst(props.propdelkeys, propname)]

\* a propset that adds the name to the key order whether or not it is there
propsetOne_appends(props, propname) ==
    [props EXCEPT
       !.propkeys = Append(@, Split(propname, <<"=">>)[1]),
       !.properties = MapSet(@, Split(propname, <<"=">>)[1], Split(propname, <<"=">>)[2])]

\* propset, revhook: one NAME=VALUE
propsetOne(props, propname) ==
    LET fields == Split(propname, <<"=">>)
    IN [props EXCEPT
          !.propkeys = IF fields[1] \in DOMAIN props.properties THEN @
                       ELSE Append(@, fields[1]),
          !.properties = MapSet(@, fields[1], fields[2])]

\* proprename, revhook: one OLD->NEW
proprenameOne(props, propname) ==
    LET fields == Split(propname, <<"-", ">">>)
    IN IF fields[1] \in DOMAIN props.properties
       THEN [properties |-> MapSet(MapSet(props.properties, fields[2],
                                          props.properties[fields[1]]),
                                   fields[1], <<>>),
             propkeys |-> RenameAll(props.propkeys, fields[1], fields[2]),
             propdelkeys |-> RenameAll(props.propdelkeys, fields[1], fields[2])]
       ELSE props

\* propdel, revhook
RECURSIVE propdelHook(_, _)
propdelHook(props, propnames) ==
    IF propnames = <<>> THEN props
    ELSE propdelHook(propdelOne(props, Head(propnames)), Tail(propnames))

\* propset, revhook
RECURSIVE propsetHook(_, _)
propsetHook(props, propnames) ==
    IF propnames = <<>> THEN props
    ELSE propsetHook(propsetOne(props, Head(propnames)), Tail(propnames))

\* proprename, revhook
RECURSIVE proprenameHook(_, _)
proprenameHook(props, propnames) ==
    IF propnames = <<>> THEN props
    ELSE proprenameHook(proprenameOne(props, Head(propnames)), Tail(propnames))

\* pop: popSegment
popSegment(ins) ==
    LET k == IndexByte(ins, "/", 1)
    IN IF k # 0 THEN SubSeq(ins, k + 1, Len(ins)) ELSE <<>>

\* pop, revhook
popRevhook(props) ==
    IF sSvnMergeinfo \in DOMAIN props.properties
    THEN [props EXCEPT !.properties = MapSet(@, sSvnMergeinfo, popSegment(@[sSvnMergeinfo]))]
    ELSE props

\* swap: mutator; ok is FALSE for a nil result
swapMutator(path) ==
    LET parts == Split(path, <<"/">>)
    IN IF Len(parts) < 2 THEN [ok |-> FALSE, val |-> <<>>]
       ELSE [ok |-> TRUE,
             val |-> Join(<<parts[2], parts[1]>> \o SubSeq(parts, 3, Len(parts)), <<"/">>)]

\* swap, revhook
swapRevhook(props, revision) ==
    LET has == sSvnMergeinfo \in DOMAIN props.properties
        mergepath == IF has THEN swapMutator(props.properties[sSvnMergeinfo])
                     ELSE [ok |-> FALSE, val |-> <<>>]
        p1 == IF mergepath.ok
              THEN [props EXCEPT !.properties = MapSet(@, sSvnMergeinfo, mergepath.val)]
              ELSE props
    IN IF revision = 1 /\ PropsContains(p1, sSvnLog)
       THEN [p1 EXCEPT !.properties = MapSet(@, sSvnLog, sSyntheticLog)]
       ELSE p1

\* the name sequence of obscure: the names it hands out, in order
FancyNames ==
    << <<"A","m","b","e","r","A","n","g","e","l">>,
       <<"A","m","e","t","h","y","s","t","A","x","e">>,
       <<"A","r","g","e","n","t","A","n","g","e","l">>,
       <<"A","m","b","e","r","B","e","a","r">>,
       <<"A","m","e","t","h","y","s","t","A","n","g","e","l">>,
       <<"A","r","g","e","n","t","B","e","a","r">>,
       <<"A","m","b","e","r","A","x","e">>,
       <<"A","m","e","t","h","y","s","t","B","e","a","r">>,
       <<"A","r","g","e","n","t","A","x","e">>,
       <<"A","m","b","e","r","A","n","g","e","l","1">> >>

\* an obscureString that forgets what it has named: every call gets the next
\* name of the sequence
obscureString_forgetful(namemap, s) ==
    [namemap |-> Append(namemap, s), val |-> FancyNames[Len(namemap) + 1]]

\* obscureString: the same token gets the same name; a new token gets the
\* next name of the sequence.  namemap lists the tokens in order of arrival.
obscureString(namemap, s) ==
    IF \E i \in 1..Len(namemap) : namemap[i] = s
    THEN [namemap |-> namemap,
          val |-> FancyNames[CHOOSE i \in 1..Len(namemap) : namemap[i] = s]]
    ELSE [namemap |-> Append(namemap, s), val |-> FancyNames[Len(namemap) + 1]]

UpperCase == <<"A","B","C","D","E","F","G","H","I","J","K","L","M","N","O","P","Q","R","S","T","U","V","W","X","Y","Z">>

LowerCase == <<"a","b","c","d","e","f","g","h","i","j","k","l","m","n","o","p","q","r","s","t","u","v","w","x","y","z">>

ToLower(s) ==
    [i \in 1..Len(s) |->
        IF \E k \in 1..Len(UpperCase) : UpperCase[k] = s[i]
        THEN LowerCase[CHOOSE k \in 1..Len(UpperCase) : UpperCase[k] = s[i]]
        ELSE s[i]]

\* obscure: pathMutator, over the parts of a path from part i on
RECURSIVE obscureParts(_, _, _)
obscureParts(namemap, parts, i) ==
    LET Named(o) == obscureParts(o.namemap, [parts EXCEPT ![i] = o.val], i + 1)
    IN IF i > Len(parts) THEN [namemap |-> namemap, parts |-> parts]
       ELSE IF parts[i] \notin {sTrunk, sTags, sBranches, <<>>}
       THEN Named(obscureString(namemap, parts[i]))
       ELSE obscureParts(namemap, parts, i + 1)

\* the pathMutator of a command: pathrename's regexp replacement or
\* obscure's renaming of the parts
pathMutator(c, h, s) ==
    LET Obscured(o) ==
            [h |-> [h EXCEPT !.namemap = o.namemap], val |-> Join(o.parts, <<"/">>)]
    IN IF c.name = "obscure"
       THEN Obscured(obscureParts(h.namemap, Split(s, <<"/">>), 1))
       ELSE [h |-> h, val |-> RegexpReplaceAll(c.patterns[1], s, c.patterns[2])]

\* strings.LastIndex for a single byte
LastIndexByte(s, c) ==
    IF \E k \in 1..Len(s) : s[k] = c
    THEN CHOOSE k \in 1..Len(s) : s[k] = c /\ \A j \in (k + 1)..Len(s) : s[j] # c
    ELSE 0

\* mutatePaths, revhook: the lines of svn:mergeinfo from line i on; acc is
\* the buffer the loop writes the rewritten lines to
RECURSIVE mutateMergeinfo(_, _, _, _, _)
mutateMergeinfo(c, h, lines, i, acc) ==
    LET Line(line, lastidx, m) ==
            mutateMergeinfo(c, IF lastidx # 0 THEN m.h ELSE h, lines, i + 1,
                            acc \o (IF lastidx # 0
                                    THEN m.val \o <<":">> \o SubSeq(line, lastidx + 1, Len(line))
                                    ELSE line) \o linesep)
        Colon(line, lastidx) ==
            Line(line, lastidx, pathMutator(c, h, SubSeq(line, 1, lastidx - 1)))
    IN IF i > Len(lines) THEN [h |-> h, val |-> acc]
       ELSE Colon(lines[i], LastIndexByte(lines[i], ":"))

\* mutatePaths, revhook
mutatePathsRevhook(c, h, props) ==
    LET hasmi == sSvnMergeinfo \in DOMAIN props.properties
        mergeinfo == props.properties[sSvnMergeinfo]
        trimmed == IF HasSuffix(mergeinfo, linesep)
                   THEN SubSeq(mergeinfo, 1, Len(mergeinfo) - 1) ELSE mergeinfo
        Named(hh, p1, on) ==
            [h |-> [hh EXCEPT !.namemap = on.namemap], fatal |-> FALSE,
             props |-> [p1 EXCEPT !.properties = MapSet(@, sSvnAuthor, ToLower(on.val))]]
        Author(hh, p1) ==
            IF c.name = "obscure" /\ sSvnAuthor \in DOMAIN p1.properties
            THEN Named(hh, p1, obscureString(hh.namemap, p1.properties[sSvnAuthor]))
            ELSE [h |-> hh, fatal |-> FALSE, props |-> p1]
        Mergeinfo(mm) ==
            Author(mm.h, IF hasmi
                         THEN [props EXCEPT !.properties = MapSet(@, sSvnMergeinfo, mm.val)]
                         ELSE props)
    IN Mergeinfo(IF hasmi /\ Len(mergeinfo) # 0
                 THEN mutateMergeinfo(c, h, Split(trimmed, linesep), 1, <<>>)
                 ELSE [h |-> h, val |-> <<>>])

getAuthor(props) ==
    IF sSvnAuthor \in DOMAIN props THEN props[sSvnAuthor] ELSE sNoAuthor

\* a log hook that replaces the log without looking at the author
setlogHook_unchecked(c, h, props, revision) ==
    IF sSvnLog \in DOMAIN props.properties /\ revision \in DOMAIN c.comments
    THEN [h |-> h, fatal |-> FALSE,
          props |-> [props EXCEPT !.properties =
                         MapSet(@, sSvnLog, c.comments[revision].text)]]
    ELSE [h |-> h, fatal |-> FALSE, props |-> props]

\* setlog, loghook; comments is the parsed log file, by revision
setlogHook(c, h, props, revision) ==
    IF sSvnLog \in DOMAIN props.properties /\ revision \in DOMAIN c.comments
    THEN IF c.comments[revision].author # getAuthor(props.properties)
         THEN [h |-> h, fatal |-> TRUE, props |-> props]
         ELSE [h |-> h, fatal |-> FALSE,
               props |-> [props EXCEPT !.properties =
                              MapSet(@, sSvnLog, c.comments[revision].text)]]
    ELSE [h |-> h, fatal |-> FALSE, props |-> props]

\* what a hook has written to standard output: one entry of the history of
\* what was written
Printed(kind, rev, index, text) ==
    [kind |-> kind, rev |-> rev, index |-> index, header |-> text, properties |-> <<>>,
     content |-> <<>>, trailer |-> <<>>]

delim == [i \in 1..72 |-> "-"]

DayNames == << <<"S","u","n">>, <<"M","o","n">>, <<"T","u","e">>, <<"W","e","d">>,
               <<"T","h","u">>, <<"F","r","i">>, <<"S","a","t">> >>

MonthNames == << <<"J","a","n">>, <<"F","e","b">>, <<"M","a","r">>, <<"A","p","r">>,
                 <<"M","a","y">>, <<"J","u","n">>, <<"J","u","l">>, <<"A","u","g">>,
                 <<"S","e","p">>, <<"O","c","t">>, <<"N","o","v">>, <<"D","e","c">> >>

\* time.Weekday of a date of the Gregorian calendar, 0 for Sunday
Weekday(y, m, d) ==
    LET yy == IF m < 3 THEN y - 1 ELSE y
        t == <<0, 3, 2, 5, 0, 3, 5, 1, 4, 6, 2, 4>>
    IN (yy + yy \div 4 - yy \div 100 + yy \div 400 + t[m] + d) % 7

\* SVNTimeParse: a date as Subversion writes it, 2011-11-30T16:40:02.180831Z,
\* in universal time; ok is FALSE for any other text
SVNTimeParse(rdate) ==
    LET num(a, b) == Atoi(SubSeq(rdate, a, b))
        shaped == /\ Len(rdate) >= 20
                  /\ rdate[5] = "-" /\ rdate[8] = "-" /\ rdate[11] = "T"
                  /\ rdate[14] = ":" /\ rdate[17] = ":"
                  /\ rdate[Len(rdate)] = "Z"
                  /\ num(1, 4).ok /\ num(6, 7).ok /\ num(9, 10).ok
                  /\ num(12, 13).ok /\ num(15, 16).ok /\ num(18, 19).ok
                  /\ (Len(rdate) = 20
                      \/ (rdate[20] = "." /\ num(21, Len(rdate) - 1).ok))
                  /\ num(6, 7).val \in 1..12 /\ num(9, 10).val \in 1..31
                  /\ num(12, 13).val < 24 /\ num(15, 16).val < 60 /\ num(18, 19).val < 60
    IN IF shaped
       THEN [ok |-> TRUE, year |-> num(1, 4).val, month |-> num(6, 7).val,
             day |-> num(9, 10).val, clock |-> SubSeq(rdate, 12, 19)]
       ELSE [ok |-> FALSE, year |-> 0, month |-> 1, day |-> 1, clock |-> <<>>]

\* date.Format("2006-01-02 15:04:05 +0000 (Mon, 02 Jan 2006)")
FormatLogDate(rdate, date) ==
    SubSeq(rdate, 1, 10) \o <<" ">> \o date.clock \o <<" ","+","0","0","0","0"," ","(">>
    \o DayNames[Weekday(date.year, date.month, date.day) + 1] \o <<",", " ">>
    \o SubSeq(rdate, 9, 10) \o <<" ">> \o MonthNames[date.month] \o <<" ">>
    \o SubSeq(rdate, 1, 4) \o <<")">>

\* log, prophook: the entry of a block that has a log message
logHook(h, props, revision) ==
    LET logentry == IF sSvnLog \in DOMAIN props.properties
                    THEN props.properties[sSvnLog] ELSE <<>>
        rdate == IF <<"s","v","n",":","d","a","t","e">> \in DOMAIN props.properties
                 THEN props.properties[<<"s","v","n",":","d","a","t","e">>] ELSE <<>>
        Entry(date) ==
            IF ~date.ok
            THEN [h |-> [h EXCEPT !.printed =
                             Append(@, Printed("delim", revision, 0, delim \o linesep))],
                  fatal |-> TRUE, props |-> props]
            ELSE [h |-> [h EXCEPT !.printed =
                             Append(@, Printed("log", revision, 0,
                                 delim \o linesep
                                 \o <<"r">> \o Itoa(revision) \o <<" ", "|", " ">>
                                 \o getAuthor(props.properties) \o <<" ", "|", " ">>
                                 \o FormatLogDate(rdate, date) \o <<" ", "|", " ">>
                                 \o Itoa(CountNl(logentry)) \o <<" ","l","i","n","e","s">>
                                 \o linesep
                                 \o linesep \o logentry \o linesep))],
                  fatal |-> FALSE, props |-> props]
    IN IF logentry = <<>> THEN [h |-> h, fatal |-> FALSE, props |-> props]
       ELSE Entry(SVNTimeParse(rdate))

\* the commands of Report that install a property hook
HasPropertyHook(c) ==
    c.name \in {"propdel", "propset", "proprename", "setlog", "pathrename", "obscure",
                "pop", "swap", "log"}

\* the property hook of command c, applied at revision `revision`
PropertyHook(c, h, revision, props) ==
    CASE c.name = "propdel" ->
           [h |-> h, fatal |-> FALSE, props |-> propdelHook(props, c.propnames)]
      [] c.name = "propset" ->
           [h |-> h, fatal |-> FALSE, props |-> propsetHook(props, c.propnames)]
      [] c.name = "proprename" ->
           [h |-> h, fatal |-> FALSE, props |-> proprenameHook(props, c.propnames)]
      [] c.name = "setlog" -> setlogHook(c, h, props, revision)
      [] c.name \in {"pathrename", "obscure"} -> mutatePathsRevhook(c, h, props)
      [] c.name = "pop" -> [h |-> h, fatal |-> FALSE, props |-> popRevhook(props)]
      [] c.name = "swap" ->
           [h |-> h, fatal |-> FALSE, props |-> swapRevhook(props, revision)]
      [] c.name = "log" -> logHook(h, props, revision)
      [] OTHER -> [h |-> h, fatal |-> FALSE, props |-> props]

\* the path rewriting that pop, swap and mutatePaths do in a node header,
\* for the header types htypes[i..]; nil is TRUE when swap's mutator gave nil
RECURSIVE mutateHeaderPaths(_, _, _, _, _)
mutateHeaderPaths(c, h, header, htypes, i) ==
    LET offs == Index(header, htypes[i])
        start == offs + Len(htypes[i])
        endoffs == IndexByte(header, "\n", start)
        Rewritten(m) ==
            mutateHeaderPaths(c, m.h,
                              SubSeq(header, 1, start - 1) \o m.val
                                  \o SubSeq(header, endoffs, Len(header)),
                              htypes, i + 1)
        Swapped(sw) ==
            IF sw.ok THEN Rewritten([h |-> h, val |-> sw.val])
            ELSE [h |-> h, header |-> header, nil |-> TRUE]
        Path(pathline) ==
            IF c.name = "pop" THEN Rewritten([h |-> h, val |-> popSegment(pathline)])
            ELSE IF c.name = "swap" THEN Swapped(swapMutator(pathline))
            ELSE Rewritten(pathMutator(c, h, pathline))
    IN IF i > Len(htypes) THEN [h |-> h, header |-> header, nil |-> FALSE]
       ELSE IF offs = 0 THEN mutateHeaderPaths(c, h, header, htypes, i + 1)
       ELSE Path(SubSeq(header, start, endoffs - 1))

PathHeaders == <<sNodePath \o <<":", " ">>, sNodeCopyfromPath \o <<":", " ">>>>

\* obscure: contentMutator
contentMutator(c, h, s) ==
    LET Link(t, n) ==
            [h |-> t.h, val |-> sLink \o SubSeq(t.val, 1, n) \o SubSeq(s, 6 + n, Len(s))]
        Mutated(t) == Link(t, IF Len(s) - 5 < Len(t.val) THEN Len(s) - 5 ELSE Len(t.val))
    IN IF c.name = "obscure" /\ HasPrefix(s, sLink)
       THEN Mutated(pathMutator(c, h, SubSeq(s, 6, Len(s))))
       ELSE [h |-> h, val |-> s]

\* dumpall: header, properties and content one after the other; kept as the
\* pieces, which Flatten turns into the bytes
dumpall(header, properties, content) ==
    [header |-> header, properties |-> properties, content |-> content, trailer |-> <<>>]

\* swap: one of the three synthetic directory nodes of swapHeader
SwapNode(path) ==
    [header |-> sNodePath \o <<":", " ">> \o path \o sSwapNodeTail,
     properties |-> sPropsEnd \o linesep, content |-> <<>>, trailer |-> <<"\n", "\n">>]

swapHeader == <<SwapNode(sBranches), SwapNode(sTags), SwapNode(sTrunk)>>

\* the bytes of a sequence of node texts
RECURSIVE Flatten(_)
Flatten(parts) ==
    IF parts = <<>> THEN <<>>
    ELSE Head(parts).header \o Head(parts).properties \o Head(parts).content
         \o Head(parts).trailer \o Flatten(Tail(parts))

\* a match that every header passes
matched_always(c, header) == TRUE

\* the patterns match the Node-path of the header (sift, expunge)
matched(c, header) ==
    LET nodepath == payload(sNodePath, header)
    IN nodepath.ok /\ MatchesAny(c.patterns, nodepath.val)

\* a strip that replaces the content of symbolic links too
innerstrip_links(c, revision, header, properties, content) ==
    LET tell == sRevisionIs \o Itoa(revision) \o sFilePathIs
                \o getHeader(header, sNodePath).val \o <<".", "\n">>
        h1 == SetLength(sTextContent, header, Len(tell))
        h2 == SetLength(sContent, h1, Len(properties) + Len(tell))
    IN IF (c.patterns = <<>> \/ MatchesAny(c.patterns, payload(sNodePath, header).val))
          /\ Len(content) > 0
       THEN dumpall(stripChecksums(h2), properties, tell)
       ELSE dumpall(header, properties, content)

\* strip: innerstrip
innerstrip(c, revision, header, properties, content) ==
    LET nodepath == payload(sNodePath, header)
        ok == ~nodepath.ok \/ c.patterns = <<>> \/ MatchesAny(c.patterns, nodepath.val)
        tell == sRevisionIs \o Itoa(revision) \o sFilePathIs
                \o getHeader(header, sNodePath).val \o <<".", "\n">>
        h1 == SetLength(sTextContent, header, Len(tell))
        h2 == SetLength(sContent, h1, Len(properties) + Len(tell))
    IN IF ok /\ Len(content) > 0 /\ ~HasPrefix(content, sLink)
       THEN dumpall(stripChecksums(h2), properties, tell)
       ELSE dumpall(header, properties, content)

\* replace: the parts of the transform, split at its first character
patternParts(transform) == Split(Tail(transform), <<Head(transform)>>)

\* replace: innerreplace
innerreplace(c, header, properties, content) ==
    LET pp == patternParts(c.transform)
        newcontent == RegexpReplaceAll(pp[1], content, pp[2])
        h1 == SetLength(sTextContent, header, Len(newcontent))
        h2 == SetLength(sContent, h1, Len(properties) + Len(newcontent))
    IN IF content # newcontent
       THEN dumpall(stripChecksums(h2), properties, newcontent)
       ELSE dumpall(header, properties, newcontent)

\* fmt's %-ns: s with blanks after it up to the width n
PadRight(s, n) == s \o [i \in 1..(n - Len(s)) |-> " "]

\* see, seenode: the line of a node.  The appends of the code write into the
\* header they took path and frompath from, after everything else was read
\* from it.
seenode(h, source, header) ==
    LET kind == payload(sNodeKind, header)
        isdir == kind.ok /\ kind.val = <<"d","i","r">>
        frompath == payload(sNodeCopyfromPath, header)
        fromrev == payload(sNodeCopyfromRev, header)
        copied == frompath.ok /\ fromrev.ok
        path == payload(sNodePath, header).val \o (IF isdir THEN <<"/">> ELSE <<>>)
                \o (IF copied
                    THEN <<" ","f","r","o","m"," ">> \o fromrev.val \o <<":">>
                         \o frompath.val \o (IF isdir THEN <<"/">> ELSE <<>>)
                    ELSE <<>>)
        action == IF copied THEN <<"c","o","p","y">> ELSE payload(sNodeAction, header).val
        leader == Itoa(source.Revision) \o <<"-">> \o Itoa(source.Index)
    IN [h EXCEPT !.printed =
           Append(@, Printed("see", source.Revision, source.Index,
                             PadRight(leader, 5) \o <<" ">> \o PadRight(action, 8) \o <<" ">>
                             \o path \o linesep))]

\* reduce, reducehook: the revisions of interest and the last revision that
\* had a node
reducehook(h, source, header, properties) ==
    LET kind == getHeader(header, sNodeKind)
        action == getHeader(header, sNodeAction)
        copysource == getHeader(header, sNodeCopyfromRev)
        n == Atoi(copysource.val)
        principal ==
            IF ~(kind.val = <<"f","i","l","e">> /\ action.val = <<"c","h","a","n","g","e">>)
               \/ Len(properties) > 0
            THEN {source.Revision - 1, source.Revision, source.Revision + 1}
            ELSE {}
        derived == IF copysource.ok /\ n.ok THEN {n.val - 1, n.val, n.val + 1} ELSE {}
    IN [h EXCEPT !.interesting = @ \cup principal \cup derived,
                 !.maxRev = source.Revision]

\* a swap whose latch is never looked at
swapInjects_unlatched(source, h) == source.Revision = 1

\* swap: the node is the first one the hook sees in revision 1
swapInjects(source, h) == source.Revision = 1 /\ ~h.swaplatch

\* a node hook that hands every node over twice
NodeHook_twice(c, h, source, header, properties, content) ==
    [h |-> h, parts |-> <<dumpall(header, properties, content),
                          dumpall(header, properties, content)>>]

\* the node hook of command c; source is the DumpfileSource the hook reads
\* the revision and the index of the node from
NodeHook(c, h, source, header, properties, content) ==
    CASE c.name = "sift" ->
           [h |-> h, parts |-> IF matched(c, header)
                               THEN <<dumpall(header, properties, content)>> ELSE <<>>]
      [] c.name = "expunge" ->
           [h |-> h, parts |-> IF ~matched(c, header)
                               THEN <<dumpall(header, properties, content)>> ELSE <<>>]
      [] c.name = "strip" ->
           [h |-> h, parts |-> <<innerstrip(c, source.Revision, header, properties,
                                            content)>>]
      [] c.name = "replace" ->
           [h |-> h, parts |-> <<innerreplace(c, header, properties, content)>>]
      [] c.name \in {"pop", "pathrename", "obscure"} ->
           LET Content(m, cm) ==
                   [h |-> cm.h, parts |-> <<dumpall(m.header, properties, cm.val)>>]
               Paths(m) == Content(m, contentMutator(c, m.h, content))
           IN Paths(mutateHeaderPaths(c, h, header, PathHeaders, 1))
      [] c.name = "swap" ->
           LET Paths(m) ==
                   IF m.nil THEN [h |-> h, parts |-> <<>>]
                   ELSE [h |-> h, parts |-> <<dumpall(m.header, properties, content)>>]
           IN IF swapInjects(source, h)
              THEN [h |-> [h EXCEPT !.swaplatch = TRUE], parts |-> swapHeader]
              ELSE Paths(mutateHeaderPaths(c, h, header, PathHeaders, 1))
      [] c.name = "see" -> [h |-> seenode(h, source, header), parts |-> <<>>]
      [] c.name = "reduce" ->
           [h |-> reducehook(h, source, header, properties), parts |-> <<>>]
      [] c.name = "log" -> [h |-> h, parts |-> <<>>]
      [] OTHER -> [h |-> h, parts |-> <<dumpall(header, properties, content)>>]

(***************************************************************************)
(* Reading a revision header and a node.  Both give back the source, what  *)
(* the hooks remember, and the pieces read; failed is TRUE when the        *)
(* program has exited in between.                                          *)
(***************************************************************************)
ReadRevisionHeader(l, d, c, h) ==
    LET r1 == Require(l, sRevisionNumber)
        f == Fields(r1.line)
        rval == IF Len(f) >= 2 THEN Atoi(f[2]) ELSE [ok |-> FALSE, val |-> 0]
        r2 == Require(r1.l, sPropContentLength)
        r3 == Require(r2.l, sContentLength)
        r4 == Require(r3.l, linesep)
        stash == r1.line \o r2.line \o r3.line \o r4.line
        Failed(l1, rev) ==
            [failed |-> TRUE, l |-> l1, h |-> h, Revision |-> rev,
             header |-> <<>>, properties |-> <<>>, blank |-> <<>>]
        Finish(hh, properties, bl) ==
            [failed |-> FALSE, l |-> bl.l, h |-> hh, Revision |-> rval.val,
             header |-> IF HasPropertyHook(c)
                        THEN SetLength(sContent,
                                       SetLength(sPropContent, stash, Len(properties)),
                                       Len(properties))
                        ELSE stash,
             properties |-> properties, blank |-> bl.stash]
        Hooked(np, ph) ==
            IF np.l.st # "ok" \/ ph.fatal THEN [Failed(np.l, rval.val) EXCEPT !.h = ph.h]
            ELSE Finish(ph.h, Stringer(ph.props), ReadBlankLines(np.l, <<>>))
        Parsed(np) ==
            Hooked(np, IF HasPropertyHook(c) THEN PropertyHook(c, h, rval.val, np.props)
                       ELSE [h |-> h, fatal |-> FALSE, props |-> np.props])
    IN IF r1.l.st # "ok" \/ ~rval.ok THEN Failed(r1.l, d.Revision)
       ELSE Parsed(NewProperties(r4.l))

ReadNode(l, d, c, h) ==
    LET r1 == Require(l, sNode)
        Failed(l1) ==
            [failed |-> TRUE, l |-> [l1 EXCEPT !.st = IF @ = "ok" THEN "fatal" ELSE @],
             h |-> h, header |-> <<>>, properties |-> <<>>, content |-> <<>>]
        Finish(header, hh, properties, rd) ==
            IF rd.l.st # "ok" THEN Failed(rd.l)
            ELSE [failed |-> FALSE, l |-> rd.l, h |-> hh,
                  header |-> IF HasPropertyHook(c)
                             THEN SetLength(sContent,
                                            SetLength(sPropContent, header, Len(properties)),
                                            Len(properties) + Len(rd.text))
                             ELSE header,
                  properties |-> properties, content |-> rd.text]
        Content(header, l1, hh, properties, cl) ==
            Finish(header, hh, properties,
                   IF cl # <<>> THEN Read(l1, AtoiVal(cl, 0)) ELSE [l |-> l1, text |-> <<>>])
        Hooked(header, hasprops, np, ph) ==
            IF np.l.st # "ok" \/ ph.fatal THEN [Failed(np.l) EXCEPT !.h = ph.h]
            ELSE Content(header, np.l, ph.h, IF hasprops THEN Stringer(ph.props) ELSE <<>>,
                         FindNumber(header, sTextContentLength \o <<" ">>, NonZeroDigit))
        Parsed(header, hasprops, np) ==
            Hooked(header, hasprops, np,
                   IF hasprops /\ HasPropertyHook(c)
                   THEN PropertyHook(c, h, d.Revision, np.props)
                   ELSE [h |-> h, fatal |-> FALSE, props |-> np.props])
        Props(hd, hasprops) ==
            Parsed(hd.header, hasprops,
                   IF hasprops THEN NewProperties(hd.l)
                   ELSE [l |-> hd.l, props |-> EmptyProperties])
        Header(hd) ==
            IF hd.l.st # "ok" THEN Failed(hd.l)
            ELSE Props(hd, BytesContains(hd.header, sPropContentLengthHd))
    IN Header(ReadNodeHeaderLoop(r1.l, d.EmittedRevisions, r1.line))

(***************************************************************************)
(* The input: a dump stream as svnadmin writes it.  A dump is described by *)
(* its revisions; a revision by its number, the entries of its property    *)
(* block and its nodes; a node by its path, kind, action, copy source,     *)
(* property entries, content and whether it carries checksums.  An absent  *)
(* part is the empty sequence, a present one a sequence of length one.     *)
(***************************************************************************)
KV(key, val) == [t |-> "K", key |-> key, val |-> val]

DEL(key) == [t |-> "D", key |-> key]

PropEntry(e) ==
    IF e.t = "K"
    THEN <<"K", " ">> \o Itoa(Len(e.key)) \o linesep \o e.key \o linesep
         \o <<"V", " ">> \o Itoa(Len(e.val)) \o linesep \o e.val \o linesep
    ELSE <<"D", " ">> \o Itoa(Len(e.key)) \o linesep \o e.key \o linesep

RECURSIVE PropEntries(_)
PropEntries(es) == IF es = <<>> THEN <<>> ELSE PropEntry(Head(es)) \o PropEntries(Tail(es))

PropBlock(es) == PropEntries(es) \o sPropsEnd \o linesep

Preamble ==
    <<"S","V","N","-","f","s","-","d","u","m","p","-","f","o","r","m","a","t","-",
      "v","e","r","s","i","o","n",":"," ","2","\n","\n">>
    \o <<"U","U","I","D",":"," ","u","\n","\n">>

HeaderLine(name, value) == name \o <<":", " ">> \o value \o linesep

RevisionHeader(num, plen) ==
    HeaderLine(<<"R","e","v","i","s","i","o","n","-","n","u","m","b","e","r">>, Itoa(num))
    \o HeaderLine(sPropContentLengthHd, Itoa(plen))
    \o HeaderLine(<<"C","o","n","t","e","n","t","-","l","e","n","g","t","h">>, Itoa(plen))
    \o linesep

NodeHeader(nd) ==
    LET plen == IF nd.props = <<>> THEN 0 ELSE Len(PropBlock(nd.props[1]))
        tlen == IF nd.text = <<>> THEN 0 ELSE Len(nd.text[1])
    IN HeaderLine(sNodePath, nd.path)
       \o (IF nd.kind = <<>> THEN <<>> ELSE HeaderLine(sNodeKind, nd.kind))
       \o HeaderLine(sNodeAction, nd.action)
       \o (IF nd.copyfrom = <<>> THEN <<>>
           ELSE HeaderLine(sNodeCopyfromRev, Itoa(nd.copyfrom[1]))
                \o HeaderLine(sNodeCopyfromPath, nd.copyfrom[2])
                \o (IF nd.sums /\ nd.kind = <<"f","i","l","e">>
                    THEN sTextCopySourceMd5 \o <<" ", "c", "1">> \o linesep
                         \o sTextCopySourceSha1 \o <<" ", "c", "2">> \o linesep
                    ELSE <<>>))
       \o (IF nd.props = <<>> THEN <<>> ELSE HeaderLine(sPropContentLengthHd, Itoa(plen)))
       \o (IF nd.text = <<>> THEN <<>>
           ELSE sTextContentLength \o <<" ">> \o Itoa(tlen) \o linesep
                \o (IF nd.sums
                    THEN sTextContentMd5 \o <<" ", "m", "1">> \o linesep
                         \o sTextContentSha1 \o <<" ", "m", "2">> \o linesep
                    ELSE <<>>))
       \o (IF nd.props = <<>> /\ nd.text = <<>> THEN <<>>
           ELSE sContentLength \o <<" ">> \o Itoa(plen + tlen) \o linesep)
       \o linesep

NodeProps(nd) == IF nd.props = <<>> THEN <<>> ELSE PropBlock(nd.props[1])

NodeText(nd) == IF nd.text = <<>> THEN <<>> ELSE nd.text[1]

NodeRecord(nd) == NodeHeader(nd) \o NodeProps(nd) \o NodeText(nd) \o <<"\n", "\n">>

RECURSIVE NodeRecords(_)
NodeRecords(nds) == IF nds = <<>> THEN <<>> ELSE NodeRecord(Head(nds)) \o NodeRecords(Tail(nds))

RevisionStash(rev) ==
    RevisionHeader(rev.num, Len(PropBlock(rev.props))) \o PropBlock(rev.props) \o linesep

RevisionRecord(rev) == RevisionStash(rev) \o NodeRecords(rev.nodes)

RECURSIVE RevisionRecords(_)
RevisionRecords(revs) ==
    IF revs = <<>> THEN <<>> ELSE RevisionRecord(Head(revs)) \o RevisionRecords(Tail(revs))

DumpBytes(d) == Preamble \o RevisionRecords(d.revs)

(***************************************************************************)
(* The inputs the model draws from.                                        *)
(***************************************************************************)
sFile == <<"f","i","l","e">>
sDir == <<"d","i","r">>

NoNode == [path |-> <<>>, kind |-> <<>>, action |-> <<>>, copyfrom |-> <<>>,
           props |-> <<>>, text |-> <<>>, sums |-> FALSE]

\* a file added with a property, content and checksums
NodeFileA == [NoNode EXCEPT !.path = <<"t","r","u","n","k","/","a">>, !.kind = sFile,
                !.action = <<"a","d","d">>,
                !.props = << <<KV(<<"p">>, <<"v","1">>)>> >>,
                !.text = << <<"h","e","l","l","o","\n">> >>, !.sums = TRUE]

\* a file changed, content without a final newline, no property block
NodeFileB == [NoNode EXCEPT !.path = <<"d","o","c","/","b">>, !.kind = sFile,
                !.action = <<"c","h","a","n","g","e">>,
                !.text = << <<"a","b","a">> >>, !.sums = TRUE]

\* a directory added with an empty property block
NodeDir == [NoNode EXCEPT !.path = <<"t","r","u","n","k">>, !.kind = sDir,
                !.action = <<"a","d","d">>, !.props = << <<>> >>]

\* a directory added without property block and without content
NodeBareDir == [NoNode EXCEPT !.path = <<"d","o","c">>, !.kind = sDir,
                !.action = <<"a","d","d">>]

\* a deletion: neither kind, nor properties, nor content
NodeDelete == [NoNode EXCEPT !.path = <<"d","o","c","/","b">>,
                !.action = <<"d","e","l","e","t","e">>]

\* a symbolic link
NodeLink == [NoNode EXCEPT !.path = <<"t","r","u","n","k","/","l">>, !.kind = sFile,
                !.action = <<"a","d","d">>,
                !.props = << <<KV(<<"s","v","n",":","s","p","e","c","i","a","l">>, <<"*">>)>> >>,
                !.text = << <<"l","i","n","k"," ","a","/","b","c">> >>, !.sums = TRUE]

\* a file whose content is itself a piece of a dump stream
NodeNested == [NoNode EXCEPT !.path = <<"t","r","u","n","k","/","d">>, !.kind = sFile,
                !.action = <<"a","d","d">>,
                !.text = << <<"x","\n">> \o sRevisionNumber \o <<" ","1","\n","y","\n">> >>]

\* a directory copied from an earlier revision, with merge information
NodeCopy == [NoNode EXCEPT !.path = <<"t","a","g","s","/","r">>, !.kind = sDir,
                !.action = <<"a","d","d">>,
                !.copyfrom = <<1, <<"t","r","u","n","k">> >>,
                !.props = << <<KV(sSvnMergeinfo, <<"/","d","o","c","/","b",":","1","-","2","\n">>),
                               DEL(<<"p">>)>> >>]

\* an empty file: a content length of zero
NodeEmptyFile == [NoNode EXCEPT !.path = <<"d","o","c","/","e">>, !.kind = sFile,
                !.action = <<"a","d","d">>, !.text = << <<>> >>]

\* the property block of a revision: revision 0 holds a date only
RevProps(num) ==
    IF num = 0 THEN <<KV(<<"s","v","n",":","d","a","t","e">>, <<"d","0">>)>>
    ELSE <<KV(sSvnLog, <<"m","s","g">> \o Itoa(num) \o linesep),
           KV(sSvnAuthor, <<"A","l">>)>>

\* the strictly increasing sequences of revision numbers of length n
IncreasingSeqs(n) ==
    {ns \in [1..n -> 0..MaxRevNum] : \A i \in 1..(n - 1) : ns[i] < ns[i + 1]}

\* the dumps of up to MaxRevs revisions whose node lists come from nodelists
DumpsOver(nodelists) ==
    UNION {
        {[revs |-> [i \in 1..n |-> [num |-> ns[i], props |-> RevProps(ns[i]),
                                    nodes |-> nl[i]]]] :
            ns \in IncreasingSeqs(n), nl \in [1..n -> nodelists]}
        : n \in 1..MaxRevs}

HEAD == MaxInt32

\* a command line: the subcommand, the selection of -r, and its arguments
Command(name, selection) ==
    [name |-> name, selection |-> selection, patterns |-> <<>>, propnames |-> <<>>,
     transform |-> <<>>, comments |-> <<>>]

\* the dumps of up to MaxRevs revisions numbered from 0 on, as svnadmin dump
\* writes a whole repository: revision 0 has no nodes
ConsecutiveDumps(nodelists) ==
    UNION {
        {[revs |-> [i \in 1..n |-> [num |-> i - 1, props |-> RevProps(i - 1),
                                    nodes |-> IF i = 1 THEN <<>> ELSE nl[i - 1]]]] :
            nl \in [1..(n - 1) -> nodelists]}
        : n \in 1..MaxRevs}

Range(ivs) == [intervals |-> ivs]

\* the selections: what NewSubversionRange builds from 0:HEAD, 0, 1, 1:2,
\* 2:HEAD, 0,2:3 and 3
Selections ==
    {Range(<< <<0, HEAD>> >>), Range(<< <<0, 0>> >>), Range(<< <<1, 1>> >>),
     Range(<< <<1, 2>> >>), Range(<< <<2, HEAD>> >>),
     Range(<< <<0, 0>>, <<2, 3>> >>), Range(<< <<3, 3>> >>)}

\* the stash of Report: the header lines of a revision, its property block
\* and the blank lines after it
NoStash == [header |-> <<>>, properties |-> <<>>, blank |-> <<>>]

StashBytes(stash) == stash.header \o stash.properties \o stash.blank

NoLocals == [emit |-> FALSE, stash |-> NoStash, nodecount |-> 0]

NoHookState ==
    [namemap |-> <<>>, swaplatch |-> FALSE, printed |-> <<>>, interesting |-> {0},
     maxRev |-> 0]

(***************************************************************************)
(* select and deselect.                                                    *)
(***************************************************************************)
invert == cmd.name = "deselect"

\* doSelect, before its loop
doSelectEnter ==
    /\ pc = "main"
    /\ cmd.name \in {"select", "deselect"}
    /\ rp' = [rp EXCEPT !.emit = (RangeContains(cmd.selection, 0) # invert)]
    /\ pc' = "doSelect"
    /\ UNCHANGED <<input, lbs, out, cmd, ds, hk, emitted, dump, run>>

\* doSelect, one turn of its loop
doSelectLoop ==
    /\ pc = "doSelect"
    /\ LET r == ReadUntilNext(lbs, sRevisionNumber, FALSE, NilRevmap)
           out1 == IF rp.emit THEN out \o r.stash ELSE out
           fields == Fields(r.l.Linebuffer)
           revision == Atoi(fields[2]).val
           emit == (RangeContains(cmd.selection, revision) # invert)
           out2 == IF emit THEN out1 \o Flush(r.l).line ELSE out1
       IN IF ~HasLineBuffered(r.l)
          THEN /\ out' = out1
               /\ lbs' = r.l
               /\ pc' = "done"
               /\ rp' = rp
          ELSE IF Len(fields) < 2
          THEN /\ out' = out1
               /\ lbs' = [r.l EXCEPT !.st = "fatal"]
               /\ pc' = "failed"
               /\ rp' = rp
          ELSE /\ out' = out2
               /\ rp' = [rp EXCEPT !.emit = emit]
               /\ IF ~invert /\ revision > Upperbound(cmd.selection)
                  THEN /\ pc' = "done"
                       /\ lbs' = IF emit THEN Flush(r.l).l ELSE r.l
                  ELSE /\ pc' = "doSelect"
                       /\ lbs' = Flush(r.l).l
    /\ UNCHANGED <<input, cmd, ds, hk, emitted, dump, run>>

\* a second, independent invocation on the same input with the complementary
\* command: select after deselect, deselect after select
RunComplement ==
    /\ pc = "done"
    /\ run.n = 1
    /\ cmd.name \in {"select", "deselect"}
    /\ run' = [n |-> 2, outs |-> Append(run.outs, out)]
    /\ cmd' = [cmd EXCEPT !.name = IF invert THEN "select" ELSE "deselect"]
    /\ lbs' = NewLineBufferedSource
    /\ ds' = NewDumpfileSource
    /\ out' = <<>>
    /\ hk' = NoHookState
    /\ emitted' = <<>>
    /\ pc' = "main"
    /\ UNCHANGED <<input, rp, dump>>


SelectNodeLists == {<<NodeFileA>>, <<NodeNested, NodeDelete>>}

InitSelect ==
    /\ dump \in DumpsOver(SelectNodeLists)
    /\ input = DumpBytes(dump)
    /\ cmd \in {Command(n, s) : n \in {"select", "deselect"}, s \in Selections}
    /\ lbs = NewLineBufferedSource
    /\ ds = NewDumpfileSource
    /\ out = <<>>
    /\ pc = "main"
    /\ rp = NoLocals
    /\ hk = NoHookState
    /\ emitted = <<>>
    /\ run = [n |-> 1, outs |-> <<>>]

NextSelect == doSelectEnter \/ doSelectLoop \/ RunComplement

SpecSelect == InitSelect /\ [][NextSelect]_vars

(***************************************************************************)
(* Report: the filter that the other commands run their hooks in.          *)
(***************************************************************************)
\* the passthrough and passempty arguments the commands give to Report
passthrough == cmd.name \notin {"log", "see", "reduce"}

\* a Report whose every caller asks for empty revisions to be passed
passempty_always == TRUE

passempty == cmd.name # "pop"

ReportCommands ==
    {"expunge", "sift", "strip", "replace", "propdel", "propset", "proprename",
     "setlog", "pathrename", "obscure", "pop", "swap", "log", "see", "reduce"}

\* say: the revisions written are remembered
say(d, text) == [d EXCEPT !.EmittedRevisions = @ \cup SaidRevisions(text)]

\* one entry of the history of what was written; index is the number the
\* source gave the node within its revision, 0 for what is not a node
Emitted(kind, rev, header, properties, content, trailer) ==
    [kind |-> kind, rev |-> rev, index |-> 0, header |-> header, properties |-> properties,
     content |-> content, trailer |-> trailer]

EmittedStash(rev, stash) ==
    Emitted("revision", rev, stash.header, stash.properties, <<>>, stash.blank)

EmittedNodes(rev, index, parts) ==
    [i \in 1..Len(parts) |->
        [Emitted("node", rev, parts[i].header, parts[i].properties, parts[i].content,
                 parts[i].trailer) EXCEPT !.index = index]]

\* the bytes of the history: what was written, in the order it was written
RECURSIVE EmittedBytes(_)
EmittedBytes(es) ==
    IF es = <<>> THEN <<>>
    ELSE Head(es).header \o Head(es).properties \o Head(es).content \o Head(es).trailer
         \o EmittedBytes(Tail(es))

\* Report, up to its loop: the preamble
ReportEnter ==
    /\ pc = "main"
    /\ cmd.name \in ReportCommands
    /\ LET emit == passthrough /\ cmd.selection.intervals[1][1] = 0
           r == ReadUntilNextRevision(lbs, 0)
       IN /\ out' = IF emit THEN out \o r.stash ELSE out
          /\ emitted' = IF emit
                        THEN Append(emitted, Emitted("preamble", 0, r.stash, <<>>, <<>>, <<>>))
                        ELSE emitted
          /\ rp' = [emit |-> emit, stash |-> NoStash, nodecount |-> 0]
          /\ lbs' = r.l
          /\ pc' = IF r.l.st # "ok" THEN "failed"
                   ELSE IF HasLineBuffered(r.l) THEN "revision" ELSE "done"
    /\ UNCHANGED <<input, cmd, ds, hk, dump, run>>

\* Report, the head of its outer loop: a revision header is read and the
\* revision is taken, skipped, or ends the run
ReportRevision ==
    /\ pc = "revision"
    /\ LET Skipped(skip) ==
               /\ pc' = IF skip.l.st # "ok" THEN "failed" ELSE "revision"
               /\ lbs' = skip.l
           Header(r) ==
               /\ ds' = [ds EXCEPT !.Revision = r.Revision, !.Index = 0]
               /\ hk' = [r.h EXCEPT !.printed = <<>>]
               /\ out' = out \o EmittedBytes(r.h.printed)
               /\ emitted' = emitted \o r.h.printed
               /\ IF r.failed
                  THEN /\ pc' = "failed"
                       /\ lbs' = r.l
                       /\ rp' = rp
                  ELSE IF ~RangeContains(cmd.selection, r.Revision)
                  THEN /\ rp' = [rp EXCEPT !.nodecount = 0]
                       /\ IF r.Revision > Upperbound(cmd.selection)
                          THEN /\ pc' = "done"
                               /\ lbs' = r.l
                          ELSE Skipped(ReadUntilNextRevision(r.l, 0))
                  ELSE /\ pc' = "nodes"
                       /\ lbs' = r.l
                       /\ rp' = [rp EXCEPT !.nodecount = 0,
                                           !.stash = [header |-> r.header,
                                                      properties |-> r.properties,
                                                      blank |-> r.blank]]
       IN Header(ReadRevisionHeader(lbs, ds, cmd, hk))
    /\ UNCHANGED <<input, cmd, dump, run>>

\* Report, inner loop: the input has ended
ReportEOF ==
    /\ pc = "nodes"
    /\ Len(Readline(lbs).line) = 0
    /\ lbs' = Readline(lbs).l
    /\ pc' = "done"
    /\ UNCHANGED <<input, out, cmd, ds, rp, hk, emitted, dump, run>>

\* Report, inner loop: a blank line
ReportBlankLine ==
    /\ pc = "nodes"
    /\ Readline(lbs).line = linesep
    /\ lbs' = Readline(lbs).l
    /\ out' = IF passthrough /\ rp.emit THEN out \o linesep ELSE out
    /\ emitted' = IF passthrough /\ rp.emit
                  THEN Append(emitted, Emitted("blank", ds.Revision, <<>>, <<>>, <<>>, linesep))
                  ELSE emitted
    /\ UNCHANGED <<input, pc, cmd, ds, rp, hk, dump, run>>

\* Report, inner loop, the next revision begins: the revision stash is
\* written whether or not a node of the revision was read
ReportNextRevision_uncounted ==
    /\ pc = "nodes"
    /\ LET r == Readline(lbs)
           stash == StashBytes(rp.stash)
           written == Len(stash) # 0 /\ passempty /\ passthrough
       IN /\ r.line # linesep
          /\ HasPrefix(r.line, sRevisionNumber)
          /\ lbs' = Push(r.l, r.line)
          /\ out' = IF written THEN out \o stash ELSE out
          /\ ds' = IF written THEN say(ds, stash) ELSE ds
          /\ emitted' = IF written THEN Append(emitted, EmittedStash(ds.Revision, rp.stash))
                        ELSE emitted
    /\ pc' = "revision"
    /\ UNCHANGED <<input, cmd, rp, hk, dump, run>>

\* Report, inner loop: the next revision begins
ReportNextRevision ==
    /\ pc = "nodes"
    /\ LET r == Readline(lbs)
           stash == StashBytes(rp.stash)
           written == Len(stash) # 0 /\ rp.nodecount = 0 /\ passempty /\ passthrough
       IN /\ r.line # linesep
          /\ HasPrefix(r.line, sRevisionNumber)
          /\ lbs' = Push(r.l, r.line)
          /\ out' = IF written THEN out \o stash ELSE out
          /\ ds' = IF written THEN say(ds, stash) ELSE ds
          /\ emitted' = IF written THEN Append(emitted, EmittedStash(ds.Revision, rp.stash))
                        ELSE emitted
    /\ pc' = "revision"
    /\ UNCHANGED <<input, cmd, rp, hk, dump, run>>

\* Report, inner loop: a node is read, handed to the node hook and written
ReportNode ==
    /\ pc = "nodes"
    /\ LET Write(d, hh, parts, hooked, stash) ==
               LET emit == Len(hooked) > 0
                   withstash == emit /\ Len(stash) > 0
                   nodetxt == IF withstash THEN stash \o hooked ELSE hooked
                   written == passthrough /\ Len(nodetxt) > 0
               IN /\ pc' = "nodes"
                  /\ hk' = [hh EXCEPT !.printed = <<>>]
                  /\ rp' = [emit |-> emit,
                            stash |-> IF withstash THEN NoStash ELSE rp.stash,
                            nodecount |-> rp.nodecount + 1]
                  /\ out' = out \o EmittedBytes(hh.printed)
                            \o (IF written THEN nodetxt ELSE <<>>)
                  /\ ds' = IF written THEN say(d, nodetxt) ELSE d
                  /\ emitted' =
                        emitted \o hh.printed
                        \o (IF written
                            THEN (IF withstash
                                  THEN <<EmittedStash(d.Revision, rp.stash)>>
                                  ELSE <<>>) \o EmittedNodes(d.Revision, d.Index, parts)
                            ELSE <<>>)
           Hooked(d, n, nh) ==
               /\ lbs' = n.l
               /\ Write(d, nh.h, nh.parts, Flatten(nh.parts), StashBytes(rp.stash))
           Node(d, n) ==
               IF n.failed
               THEN /\ pc' = "failed"
                    /\ lbs' = n.l
                    /\ rp' = [rp EXCEPT !.nodecount = @ + 1]
                    /\ ds' = d
                    /\ hk' = [n.h EXCEPT !.printed = <<>>]
                    /\ out' = out \o EmittedBytes(n.h.printed)
                    /\ emitted' = emitted \o n.h.printed
               ELSE Hooked(d, n, NodeHook(cmd, n.h, d, n.header,
                                          n.properties, n.content))
           Line(r, d) ==
               /\ HasPrefix(r.line, sNode)
               /\ Node(d, ReadNode(Push(r.l, r.line), d, cmd, hk))
           Counted(r) ==
               Line(r, IF HasPrefix(r.line, sNodePath \o <<":", " ">>)
                       THEN [ds EXCEPT !.Index = @ + 1] ELSE ds)
       IN Counted(Readline(lbs))
    /\ UNCHANGED <<input, cmd, dump, run>>

\* Report, inner loop: a line that is neither blank, nor a revision, nor a node
ReportParseError ==
    /\ pc = "nodes"
    /\ LET r == Readline(lbs)
       IN /\ Len(r.line) # 0
          /\ r.line # linesep
          /\ ~HasPrefix(r.line, sRevisionNumber)
          /\ ~HasPrefix(r.line, sNode)
          /\ lbs' = [r.l EXCEPT !.st = "fatal"]
    /\ pc' = "failed"
    /\ UNCHANGED <<input, out, cmd, ds, rp, hk, emitted, dump, run>>

Report ==
    \/ ReportEnter
    \/ ReportRevision
    \/ ReportEOF
    \/ ReportBlankLine
    \/ ReportNextRevision
    \/ ReportNode

\* the state every run starts in
Start ==
    /\ input = DumpBytes(dump)
    /\ lbs = NewLineBufferedSource
    /\ ds = NewDumpfileSource
    /\ out = <<>>
    /\ pc = "main"
    /\ rp = NoLocals
    /\ hk = NoHookState
    /\ emitted = <<>>
    /\ run = [n |-> 1, outs |-> <<>>]

(***************************************************************************)
(* The commands that install a property hook.                              *)
(***************************************************************************)
PropNodeLists == {<<>>, <<NodeFileA, NodeDelete>>, <<NodeCopy, NodeFileB>>}

PropCommands(sel) ==
    {[Command("propdel", sel) EXCEPT !.propnames = << <<"p">>, sSvnLog >>],
     [Command("propset", sel) EXCEPT !.propnames = << <<"p", "=", "x", "y", "z">> >>],
     [Command("proprename", sel) EXCEPT !.propnames = << <<"p", "-", ">", "q", "q">> >>],
     [Command("setlog", sel) EXCEPT
         !.comments = << [author |-> <<"A", "l">>, text |-> <<"n", "e", "w">>] >>],
     [Command("pathrename", sel) EXCEPT !.patterns = << <<"d", "o", "c">>, <<"m", "a", "n", "u", "a", "l">> >>],
     Command("obscure", sel),
     Command("pop", sel),
     Command("swap", sel)}

InitProp ==
    /\ dump \in ConsecutiveDumps(PropNodeLists)
    /\ cmd \in UNION {PropCommands(sel) :
                        sel \in {Range(<< <<0, HEAD>> >>), Range(<< <<1, 2>> >>)}}
    /\ Start

SpecProp == InitProp /\ [][Report]_vars

\* the history is the output
HistoryIsOutput == out = EmittedBytes(emitted)

\* a header line "name N" is in the header
HeaderHas(header, name) == FindNumber(header, name \o <<" ">>, AnyDigit) # <<>>

\* the number of the header line "name N", 0 when there is none
HeaderValue(header, name) == AtoiVal(FindNumber(header, name \o <<" ">>, AnyDigit), 0)

EmittedOf(kind) == {i \in 1..Len(emitted) : emitted[i].kind = kind}

\* C4: under a command that installs a property hook, every revision header
\* written carries a Prop-content-length and a Content-length, and both are
\* the length in bytes of the property block written for that revision
C4_RevisionLengthsMatch ==
    HasPropertyHook(cmd) =>
        \A i \in EmittedOf("revision") :
            /\ HeaderHas(emitted[i].header, sPropContentLength)
            /\ HeaderHas(emitted[i].header, sContentLength)
            /\ HeaderValue(emitted[i].header, sPropContentLength) = Len(emitted[i].properties)
            /\ HeaderValue(emitted[i].header, sContentLength) = Len(emitted[i].properties)

\* the revision of the input dump with number num
InputRevision(num) == dump.revs[CHOOSE k \in 1..Len(dump.revs) : dump.revs[k].num = num]

\* C4, witness: a run has ended having written a revision whose property
\* block the hook has made longer or shorter than it was in the input
C4_Witness ==
    /\ pc = "done"
    /\ HasPropertyHook(cmd)
    /\ \E i \in EmittedOf("revision") :
          Len(emitted[i].properties) # Len(PropBlock(InputRevision(emitted[i].rev).props))

\* C5: under a command that installs a property hook, every node written has
\* Content-length = Prop-content-length + Text-content-length in its header
\* (a missing line counting as 0), Prop-content-length being the length of
\* the property block written and Text-content-length that of the content
C5_NodeLengthsAgree ==
    HasPropertyHook(cmd) =>
        \A i \in EmittedOf("node") :
            /\ HeaderValue(emitted[i].header, sPropContentLength) = Len(emitted[i].properties)
            /\ HeaderValue(emitted[i].header, sTextContentLength) = Len(emitted[i].content)
            /\ HeaderValue(emitted[i].header, sContentLength)
                 = HeaderValue(emitted[i].header, sPropContentLength)
                   + HeaderValue(emitted[i].header, sTextContentLength)

\* C5, witness: a run has ended having written a node with content and with
\* a property block that is none of the input's: the hook has changed it
C5_Witness ==
    /\ pc = "done"
    /\ HasPropertyHook(cmd)
    /\ \E i \in EmittedOf("node") :
          /\ Len(emitted[i].content) > 0
          /\ Len(emitted[i].properties) > 0
          /\ \A k \in 1..Len(dump.revs) : \A j \in 1..Len(dump.revs[k].nodes) :
                Len(NodeProps(dump.revs[k].nodes[j])) # Len(emitted[i].properties)

(***************************************************************************)
(* Properties of select and deselect.                                      *)
(***************************************************************************)
RECURSIVE SelectedRecords(_, _, _)
SelectedRecords(revs, sel, inv) ==
    IF revs = <<>> THEN <<>>
    ELSE (IF RangeContains(sel, Head(revs).num) # inv THEN RevisionRecord(Head(revs)) ELSE <<>>)
         \o SelectedRecords(Tail(revs), sel, inv)

ExpectedSelect(d, sel, inv) ==
    (IF RangeContains(sel, 0) # inv THEN Preamble ELSE <<>>)
    \o SelectedRecords(d.revs, sel, inv)

HasNestedDump(d) ==
    \E i \in 1..Len(d.revs) : \E j \in 1..Len(d.revs[i].nodes) :
        d.revs[i].nodes[j] = NodeNested

IdentitySelection == Range(<< <<0, HEAD>> >>)

\* C2: select with the range 0:HEAD writes an output that is byte for byte
\* its input.
C2_SelectAllIsIdentity ==
    (pc = "done" /\ cmd.name = "select" /\ cmd.selection = IdentitySelection)
        => out = input

C2_Witness ==
    /\ pc = "done" /\ cmd.name = "select" /\ cmd.selection = IdentitySelection
    /\ Len(dump.revs) >= 2
    /\ HasNestedDump(dump)
    /\ out = input

RECURSIVE PickRecords(_, _, _)
PickRecords(revs, f, i) ==
    IF i > Len(revs) THEN <<>>
    ELSE (IF f[i] THEN RevisionRecord(revs[i]) ELSE <<>>) \o PickRecords(revs, f, i + 1)

ContentNodeLists == {<<NodeFileA, NodeDelete>>, <<NodeLink, NodeFileB>>, <<NodeEmptyFile>>}

ContentCommands(sel) ==
    {Command("strip", sel),
     [Command("strip", sel) EXCEPT !.patterns = << <<"^", "t", "r", "u", "n", "k">> >>],
     [Command("replace", sel) EXCEPT !.transform = <<"/", "a", "/", "b", "b", "/">>],
     [Command("replace", sel) EXCEPT !.transform = <<"/", "^", "/", "X", "/">>],
     [Command("replace", sel) EXCEPT !.transform = <<"/", "z", "z", "/", "y", "/">>],
     Command("obscure", sel)}

InitContent ==
    /\ dump \in ConsecutiveDumps(ContentNodeLists)
    /\ cmd \in UNION {ContentCommands(sel) :
                        sel \in {Range(<< <<0, HEAD>> >>), Range(<< <<1, 2>> >>)}}
    /\ Start

SpecContent == InitContent /\ [][Report]_vars

\* C6: every node written by strip or replace has Content-length =
\* Prop-content-length + Text-content-length in its header, and its
\* Text-content-length is the length in bytes of the content written, also
\* when the rewrite changed the length and when the node had no
\* Text-content-length on input
C6_RewrittenLengthsAgree ==
    cmd.name \in {"strip", "replace"} =>
        \A i \in EmittedOf("node") :
            /\ HeaderValue(emitted[i].header, sContentLength)
                 = HeaderValue(emitted[i].header, sPropContentLength)
                   + HeaderValue(emitted[i].header, sTextContentLength)
            /\ HeaderValue(emitted[i].header, sTextContentLength) = Len(emitted[i].content)

\* the node of the input that the i-th entry of the history was made from,
\* under a command that writes every node of a revision it takes
InputNodeOf(i) ==
    InputRevision(emitted[i].rev).nodes[
        Cardinality({j \in EmittedOf("node") : j <= i /\ emitted[j].rev = emitted[i].rev})]

Checksums == {sTextContentMd5, sTextContentSha1, sTextCopySourceMd5, sTextCopySourceSha1}

\* C7: a node written with content other than the content it had on input
\* (by strip, by replace, or by obscure on a `link ` body) has none of the
\* four checksum lines in its header
C7_RewrittenHasNoChecksums ==
    cmd.name \in {"strip", "replace", "obscure"} =>
        \A i \in EmittedOf("node") :
            emitted[i].content # NodeText(InputNodeOf(i)) =>
                \A sum \in Checksums : ~BytesContains(emitted[i].header, sum)

(***************************************************************************)
(* sift and expunge.                                                       *)
(***************************************************************************)
\* a second run of the same command line, on the output of the first
RunAgain ==
    /\ pc = "done"
    /\ run.n = 1
    /\ cmd.name = "sift"
    /\ run' = [n |-> 2, outs |-> Append(run.outs, out)]
    /\ input' = out
    /\ lbs' = NewLineBufferedSource
    /\ ds' = NewDumpfileSource
    /\ out' = <<>>
    /\ rp' = NoLocals
    /\ hk' = NoHookState
    /\ emitted' = <<>>
    /\ pc' = "main"
    /\ UNCHANGED <<cmd, dump>>

SiftNodeLists == {<<NodeFileA, NodeFileB>>, <<NodeDelete>>, <<NodeCopy, NodeDir>>}

SiftPatterns == {<< <<"^", "t", "r", "u", "n", "k">> >>, << <<"b", "$">>, <<"t", "a", "g", "s">> >>}

InitSift ==
    /\ dump \in ConsecutiveDumps(SiftNodeLists)
    /\ cmd \in {[Command(n, sel) EXCEPT !.patterns = p] :
                    n \in {"sift", "expunge"}, p \in SiftPatterns,
                    sel \in {Range(<< <<0, HEAD>> >>), Range(<< <<1, 2>> >>)}}
    /\ Start

NextSift == Report \/ RunAgain

SpecSift == InitSift /\ [][NextSift]_vars

\* the nodes written for revision num, as header, properties and content
EmittedNodeTexts(num) ==
    LET idx == {i \in EmittedOf("node") : emitted[i].rev = num}
        nth(n) == CHOOSE i \in idx : Cardinality({j \in idx : j <= i}) = n
    IN [n \in 1..Cardinality(idx) |->
           <<emitted[nth(n)].header, emitted[nth(n)].properties, emitted[nth(n)].content>>]

\* the nodes of the input that the command is to keep: for sift those whose
\* path matches one of the patterns, for expunge the others
RECURSIVE KeptNodeTexts(_)
KeptNodeTexts(nodes) ==
    IF nodes = <<>> THEN <<>>
    ELSE (IF MatchesAny(cmd.patterns, Head(nodes).path) = (cmd.name = "sift")
          THEN << <<NodeHeader(Head(nodes)), NodeProps(Head(nodes)), NodeText(Head(nodes))>> >>
          ELSE <<>>)
         \o KeptNodeTexts(Tail(nodes))

\* C9: when a run of sift (expunge) has ended, the nodes written for each
\* selected revision are, in order and byte for byte (header, properties,
\* content), the nodes of that revision whose Node-path matches one (none)
\* of the patterns, and no node of another revision is written
C9_SiftExpungeKeepExactly ==
    (cmd.name \in {"sift", "expunge"} /\ run.n = 1 /\ pc \in {"done", "failed"}) =>
        \A k \in 1..Len(dump.revs) :
            EmittedNodeTexts(dump.revs[k].num)
              = IF RangeContains(cmd.selection, dump.revs[k].num)
                THEN KeptNodeTexts(dump.revs[k].nodes)
                ELSE <<>>

\* C9, witness: a run has ended that wrote one node of a selected revision
\* and dropped another node of the same revision
C9_Witness ==
    /\ cmd.name \in {"sift", "expunge"}
    /\ run.n = 1
    /\ pc = "done"
    /\ \E k \in 1..Len(dump.revs) :
          /\ RangeContains(cmd.selection, dump.revs[k].num)
          /\ Len(EmittedNodeTexts(dump.revs[k].num)) > 0
          /\ Len(EmittedNodeTexts(dump.revs[k].num)) < Len(dump.revs[k].nodes)

\* C10: sift run on the output of sift with the same patterns writes that
\* output again, byte for byte
C10_SiftIdempotent ==
    (cmd.name = "sift" /\ run.n = 2 /\ pc \in {"done", "failed"}) => out = run.outs[1]

(***************************************************************************)
(* The property block codec on its own: NewProperties, then Stringer.      *)
(***************************************************************************)
\* the entries the blocks are made of: a key with two values, a key with
\* the empty value, a deletion of a key that is also set and one of another
PropEntrySet ==
    {KV(<<"a">>, <<"x">>), KV(<<"a">>, <<"y", "\n", "y">>), KV(<<"b">>, <<>>),
     DEL(<<"a">>), DEL(<<"c">>)}

PropEntrySeqs == UNION {[1..n -> PropEntrySet] : n \in 0..MaxPropEntries}

InitProps ==
    /\ dump \in {[revs |-> <<>>, entries |-> es] : es \in PropEntrySeqs}
    /\ input = PropBlock(dump.entries)
    /\ cmd = Command("props", Range(<< <<0, HEAD>> >>))
    /\ lbs = NewLineBufferedSource
    /\ ds = NewDumpfileSource
    /\ out = <<>>
    /\ pc = "props"
    /\ rp = [props |-> EmptyProperties]
    /\ hk = NoHookState
    /\ emitted = <<>>
    /\ run = [n |-> 1, outs |-> <<>>]

\* the block is parsed
PropsParse ==
    /\ pc = "props"
    /\ lbs' = NewProperties(lbs).l
    /\ rp' = [props |-> NewProperties(lbs).props]
    /\ pc' = IF NewProperties(lbs).l.st = "ok" THEN "parsed" ELSE "failed"
    /\ UNCHANGED <<input, out, cmd, ds, hk, emitted, dump, run>>

\* the parsed block is serialized, no hook having touched it
PropsSerialize ==
    /\ pc = "parsed"
    /\ out' = Stringer(rp.props)
    /\ pc' = "done"
    /\ UNCHANGED <<input, lbs, cmd, ds, rp, hk, emitted, dump, run>>

NextProps == PropsParse \/ PropsSerialize

SpecProps == InitProps /\ [][NextProps]_vars

\* C8 as stated: whatever the sequence of K/V and D entries of a block,
\* parsing and serializing it gives the bytes of the block
C8_RoundTripAnyBlock == pc = "done" => out = input

\* the K/V entries of the block come before its D entries, and no key is
\* set twice
KeysFirstAndDistinct(es) ==
    /\ \A i, j \in 1..Len(es) : (es[i].t = "D" /\ es[j].t = "K") => j < i
    /\ \A i, j \in 1..Len(es) : (es[i].t = "K" /\ es[j].t = "K" /\ es[i].key = es[j].key) => i = j

\* C8, amended: a block whose K/V entries all come before its D entries and
\* set no key twice is parsed without error, and parsing and serializing it
\* gives the bytes of the block, order of the keys, values and deletion
\* markers included
C8_RoundTripKeysFirst ==
    KeysFirstAndDistinct(dump.entries) =>
        /\ pc # "failed"
        /\ (pc = "done" => out = input)

\* C8, witness: a block with a key set, a deletion marker after it and a
\* value that holds a newline has been parsed and serialized
C8_Witness ==
    /\ pc = "done"
    /\ KeysFirstAndDistinct(dump.entries)
    /\ \E i, j \in 1..Len(dump.entries) :
          /\ i < j
          /\ dump.entries[i].t = "K"
          /\ dump.entries[j].t = "D"
    /\ \E i \in 1..Len(dump.entries) :
          dump.entries[i].t = "K" /\ Len(dump.entries[i].val) > 1

(***************************************************************************)
(* Revisions that end up without nodes.                                    *)
(***************************************************************************)
\* the header of revision num has been written
HeaderWritten(num) == \E i \in EmittedOf("revision") : emitted[i].rev = num

\* revision k of the input is selected, has nodes, and the patterns of the
\* command keep none of them
AllFilteredOut(k) ==
    /\ RangeContains(cmd.selection, dump.revs[k].num)
    /\ dump.revs[k].nodes # <<>>
    /\ KeptNodeTexts(dump.revs[k].nodes) = <<>>

\* C11: under sift and expunge, at no moment of the run has the header of a
\* selected revision been written whose nodes the filter all drops
C11_FilteredRevisionRemoved ==
    (cmd.name \in {"sift", "expunge"} /\ run.n = 1) =>
        \A k \in 1..Len(dump.revs) : AllFilteredOut(k) => ~HeaderWritten(dump.revs[k].num)

\* C11, witness: a run has ended in which a selected revision lost all its
\* nodes and is absent from the output, while the revision after it, which
\* kept a node, is there
C11_Witness ==
    /\ cmd.name \in {"sift", "expunge"}
    /\ run.n = 1
    /\ pc = "done"
    /\ \E k \in 1..(Len(dump.revs) - 1) :
          /\ AllFilteredOut(k)
          /\ ~HeaderWritten(dump.revs[k].num)
          /\ HeaderWritten(dump.revs[k + 1].num)

\* the commands whose node hook can drop a node, with pop, the one command
\* that does not ask for empty revisions, and propset
ElideNodeLists ==
    {<<>>, <<NodeDir>>, <<NodeFileA, NodeBareDir>>, <<NodeFileB, NodeFileA, NodeBareDir>>}

ElideCommands(sel) ==
    {[Command("sift", sel) EXCEPT !.patterns = << <<"^", "d", "o", "c">> >>],
     [Command("expunge", sel) EXCEPT !.patterns = << <<"^", "t", "r", "u", "n", "k">> >>],
     Command("swap", sel),
     Command("pop", sel),
     [Command("propset", sel) EXCEPT !.propnames = << <<"p", "=", "x">> >>]}

InitElide ==
    /\ dump \in ConsecutiveDumps(ElideNodeLists)
    /\ cmd \in UNION {ElideCommands(sel) :
                        sel \in {Range(<< <<0, HEAD>> >>), Range(<< <<1, 2>> >>)}}
    /\ Start

SpecElide == InitElide /\ [][Report]_vars

\* revision k of the input is selected, has nodes, none of them was written,
\* and another revision follows it in the input
AllElided(k) ==
    /\ k < Len(dump.revs)
    /\ RangeContains(cmd.selection, dump.revs[k].num)
    /\ dump.revs[k].nodes # <<>>
    /\ EmittedNodeTexts(dump.revs[k].num) = <<>>

\* C12 as stated: when a run has ended, the header of a selected revision
\* whose nodes the node hook all elided is in the output if the command
\* passes empty revisions, and is not if it does not
C12_ElidedHeaderFollowsPassEmpty ==
    pc = "done" =>
        \A k \in 1..Len(dump.revs) :
            AllElided(k) => (HeaderWritten(dump.revs[k].num) <=> passempty)

\* C12, amended: a revision header is written either together with the
\* first node written for its revision, or on its own for a revision that
\* has no nodes in the input and under a command that passes empty revisions
\* (every command but pop); so the header of a revision whose nodes were all
\* elided is written under no command
C12_HeaderOnlyWithNodeOrEmptyInput ==
    \A i \in EmittedOf("revision") :
        \/ /\ i < Len(emitted)
           /\ emitted[i + 1].kind = "node"
           /\ emitted[i + 1].rev = emitted[i].rev
        \/ /\ InputRevision(emitted[i].rev).nodes = <<>>
           /\ cmd.name # "pop"

\* C12, witness: a run of a command that passes empty revisions has ended;
\* it elided every node of a selected revision and wrote no header for it,
\* and it wrote the header of a revision without nodes on its own
C12_Witness ==
    /\ pc = "done"
    /\ cmd.name # "pop"
    /\ \E k \in 1..Len(dump.revs) : AllElided(k) /\ ~HeaderWritten(dump.revs[k].num)
    /\ \E i \in EmittedOf("revision") :
          /\ InputRevision(emitted[i].rev).nodes = <<>>
          /\ i < Len(emitted) => emitted[i + 1].kind # "node"

\* the commands that call Report with passthrough and passempty set and
\* whose node hook writes every node
PassEmptyCommands ==
    {"propset", "propdel", "proprename", "setlog", "strip", "replace", "sift", "expunge"}

\* C13: when a run of a command that passes empty revisions has ended, the
\* header and the property block of every selected revision of the input
\* that has no nodes are in the output, the last revision of the input
\* included
C13_EmptyRevisionEmitted ==
    (pc = "done" /\ cmd.name \in PassEmptyCommands) =>
        \A k \in 1..Len(dump.revs) :
            (RangeContains(cmd.selection, dump.revs[k].num) /\ dump.revs[k].nodes = <<>>)
                => \E i \in EmittedOf("revision") :
                      /\ emitted[i].rev = dump.revs[k].num
                      /\ Len(emitted[i].header) > 0
                      /\ Len(emitted[i].properties) > 0

\* the nodes of a revision of the input as header, properties and content
InputNodeTexts(nodes) ==
    [j \in 1..Len(nodes) |-> <<NodeHeader(nodes[j]), NodeProps(nodes[j]), NodeText(nodes[j])>>]

\* C14: when a run of a command that calls Report with passthrough set has
\* ended, every revision of the input whose number is not in the selection
\* is in the output as it is in the input: its header lines, its property
\* block and each of its nodes, byte for byte
C14_UnselectedPassedVerbatim ==
    (pc = "done" /\ cmd.name \in ReportCommands /\ passthrough) =>
        \A k \in 1..Len(dump.revs) :
            ~RangeContains(cmd.selection, dump.revs[k].num) =>
                /\ \E i \in EmittedOf("revision") :
                      /\ emitted[i].rev = dump.revs[k].num
                      /\ emitted[i].header \o emitted[i].properties \o emitted[i].trailer
                           = RevisionStash(dump.revs[k])
                /\ EmittedNodeTexts(dump.revs[k].num) = InputNodeTexts(dump.revs[k].nodes)

(***************************************************************************)
(* The order of what is written.                                           *)
(***************************************************************************)
\* entry i of the history is one of the directory nodes swap makes up
IsSynthetic(i) ==
    /\ cmd.name = "swap"
    /\ \E j \in 1..Len(swapHeader) : emitted[i].header = swapHeader[j].header

\* the entries of the history that are records of the input: revision
\* headers and nodes, without the nodes swap makes up
InputRecords ==
    {i \in 1..Len(emitted) : emitted[i].kind \in {"revision", "node"} /\ ~IsSynthetic(i)}

\* entry i stands before entry j in the input: an earlier revision, or the
\* same revision and its header or an earlier node
ReadBefore(i, j) ==
    \/ emitted[i].rev < emitted[j].rev
    \/ emitted[i].rev = emitted[j].rev /\ emitted[i].index < emitted[j].index

\* C15: at every moment of a run of a Report-based command, what has been
\* written is in the order it was read: each revision header and node
\* written is a record of the input, of two of them the one written first
\* is the one that stands first in the input (so none is written twice and
\* none is moved), and every node, those swap makes up included, comes
\* after the header of its revision
C15_EmittedInReadOrder ==
    cmd.name \in ReportCommands =>
        /\ \A i \in InputRecords :
              \E k \in 1..Len(dump.revs) :
                  /\ dump.revs[k].num = emitted[i].rev
                  /\ emitted[i].index <= Len(dump.revs[k].nodes)
                  /\ emitted[i].kind = "revision" <=> emitted[i].index = 0
        /\ \A i, j \in InputRecords : i < j => ReadBefore(i, j)
        /\ \A j \in EmittedOf("node") :
              \E i \in EmittedOf("revision") : i < j /\ emitted[i].rev = emitted[j].rev

\* the nodes that sift and expunge write are nodes of the input, unchanged
SiftedAreInputNodes ==
    cmd.name \in {"sift", "expunge"} =>
        \A i \in EmittedOf("node") :
            <<emitted[i].header, emitted[i].properties, emitted[i].content>>
              = InputNodeTexts(InputRevision(emitted[i].rev).nodes)[emitted[i].index]

\* C15, witness: a run has ended that wrote two revisions and, for one of
\* them, the first and the third node of the input but not the second
C15_Witness ==
    /\ pc = "done"
    /\ cmd.name \in {"sift", "expunge"}
    /\ Cardinality(EmittedOf("revision")) >= 2
    /\ \E i, j \in EmittedOf("node") :
          /\ i < j
          /\ emitted[i].rev = emitted[j].rev
          /\ emitted[i].index = 1
          /\ emitted[j].index = 3
          /\ \A k \in EmittedOf("node") : emitted[k].rev = emitted[i].rev => emitted[k].index # 2

(***************************************************************************)
(* The commands that edit property blocks: propdel, propset, proprename.   *)
(***************************************************************************)
\* the record of the input that entry i of the history was made from: its
\* property entries, in a sequence of length one, or <<>> when the record
\* has no property block
InputPropsOf(i) ==
    IF emitted[i].kind = "revision" THEN <<InputRevision(emitted[i].rev).props>>
    ELSE InputRevision(emitted[i].rev).nodes[emitted[i].index].props

\* the revision headers and nodes written
EmittedRecords == EmittedOf("revision") \cup EmittedOf("node")

Names(seq) == {seq[j] : j \in 1..Len(seq)}

\* the entries es without those whose name is in names
RECURSIVE WithoutNames(_, _)
WithoutNames(es, names) ==
    IF es = <<>> THEN <<>>
    ELSE (IF Head(es).key \in names THEN <<>> ELSE <<Head(es)>>)
         \o WithoutNames(Tail(es), names)

\* C16: every property block that propdel writes is the block of the input
\* without the entries, K/V and D alike, that bear one of the names given;
\* the other entries are there with their values and in their order
C16_PropdelRemovesNames ==
    cmd.name = "propdel" =>
        \A i \in EmittedRecords :
            emitted[i].properties
              = IF InputPropsOf(i) = <<>> THEN <<>>
                ELSE PropBlock(WithoutNames(InputPropsOf(i)[1], Names(cmd.propnames)))

\* C16, witness: a run of propdel has ended that wrote a revision whose
\* svn:log it removed and a node from whose block it removed a deletion
\* marker, in both cases leaving another entry in the block
C16_Witness ==
    /\ pc = "done"
    /\ cmd.name = "propdel"
    /\ \E i \in EmittedOf("revision") :
          /\ \E j \in 1..Len(InputPropsOf(i)[1]) : InputPropsOf(i)[1][j].key = sSvnLog
          /\ emitted[i].properties = PropBlock(<<KV(sSvnAuthor, <<"A", "l">>)>>)
    /\ \E i \in EmittedOf("node") :
          /\ InputPropsOf(i) # <<>>
          /\ \E j \in 1..Len(InputPropsOf(i)[1]) :
                InputPropsOf(i)[1][j].t = "D" /\ InputPropsOf(i)[1][j].key \in Names(cmd.propnames)
          /\ Len(emitted[i].properties) > Len(PropBlock(<<>>))

\* propset and propdel of one name, each run on the output of the other
ComposeNames == {<<"p">>, sSvnLog}

ComposeValue == <<"x", "y", "z">>

ComposeCommand(name, k, sel) ==
    [Command(name, sel) EXCEPT
        !.propnames = IF name = "propset" THEN <<k \o <<"=">> \o ComposeValue>> ELSE <<k>>]

\* the name the command sets or deletes
ComposeName == Split(cmd.propnames[1], <<"=">>)[1]

InitCompose ==
    /\ dump \in ConsecutiveDumps(PropNodeLists)
    /\ cmd \in {ComposeCommand(n, k, sel) :
                    n \in {"propset", "propdel"}, k \in ComposeNames,
                    sel \in {Range(<< <<0, HEAD>> >>), Range(<< <<1, 2>> >>)}}
    /\ Start

\* the output of the first command is made the input of the other one
RunComposed ==
    /\ pc = "done"
    /\ run.n = 1
    /\ run' = [n |-> 2, outs |-> Append(run.outs, out)]
    /\ cmd' = ComposeCommand(IF cmd.name = "propset" THEN "propdel" ELSE "propset",
                             ComposeName, cmd.selection)
    /\ input' = out
    /\ lbs' = NewLineBufferedSource
    /\ ds' = NewDumpfileSource
    /\ out' = <<>>
    /\ rp' = NoLocals
    /\ hk' = NoHookState
    /\ emitted' = <<>>
    /\ pc' = "main"
    /\ UNCHANGED dump

NextCompose == Report \/ RunComposed

SpecCompose == InitCompose /\ [][NextCompose]_vars

\* how often the bytes lit stand in s from position i on
RECURSIVE Occurrences(_, _, _)
Occurrences(s, lit, i) ==
    IF IndexFrom(s, lit, i) = 0 THEN 0
    ELSE 1 + Occurrences(s, lit, IndexFrom(s, lit, i) + 1)

\* the first two lines of an entry of a property block: K or D, and the name
EntryHead(t, k) == <<t, " ">> \o Itoa(Len(k)) \o linesep \o k \o linesep

\* the entries es with the value v under the name k: in the place of the
\* K/V entry of k if there is one, after the last K/V entry if not
RECURSIVE SetEntry(_, _, _)
SetEntry(es, k, v) ==
    IF es = <<>> \/ Head(es).t = "D" THEN <<KV(k, v)>> \o es
    ELSE IF Head(es).key = k THEN <<KV(k, v)>> \o Tail(es)
    ELSE <<Head(es)>> \o SetEntry(Tail(es), k, v)

\* C17: (1) every property block that propset k=v writes is the block of the
\* input with k=v in the place of the K/V entry of k, or after the last K/V
\* entry when it has none; (2) propdel k run on the output of propset k=v
\* writes no property block that holds k, as K/V entry or as D marker;
\* (3) propset k=v run on the output of propdel k writes only property
\* blocks that hold exactly one K/V entry k, with the value v, and no D
\* marker of k
C17_PropsetPropdelCompose ==
    /\ (cmd.name = "propset" /\ run.n = 1) =>
          \A i \in EmittedRecords :
              emitted[i].properties
                = IF InputPropsOf(i) = <<>> THEN <<>>
                  ELSE PropBlock(SetEntry(InputPropsOf(i)[1], ComposeName, ComposeValue))
    /\ (cmd.name = "propdel" /\ run.n = 2) =>
          \A i \in EmittedRecords :
              /\ Occurrences(emitted[i].properties, EntryHead("K", ComposeName), 1) = 0
              /\ Occurrences(emitted[i].properties, EntryHead("D", ComposeName), 1) = 0
    /\ (cmd.name = "propset" /\ run.n = 2) =>
          \A i \in EmittedRecords :
              Len(emitted[i].properties) > 0 =>
                  /\ Occurrences(emitted[i].properties, EntryHead("K", ComposeName), 1) = 1
                  /\ Occurrences(emitted[i].properties,
                                 PropEntry(KV(ComposeName, ComposeValue)), 1) = 1
                  /\ Occurrences(emitted[i].properties, EntryHead("D", ComposeName), 1) = 0

\* C17, witness: propset run on the output of propdel has ended; it wrote a
\* node whose block held the name with another value in the first input
\* and a node whose block held a deletion marker of the name
C17_Witness ==
    /\ pc = "done"
    /\ run.n = 2
    /\ cmd.name = "propset"
    /\ \E i, j \in EmittedOf("node") :
          /\ InputPropsOf(i) # <<>>
          /\ InputPropsOf(j) # <<>>
          /\ \E e \in Names(InputPropsOf(i)[1]) :
                e.t = "K" /\ e.key = ComposeName /\ e.val # ComposeValue
          /\ \E e \in Names(InputPropsOf(j)[1]) : e.t = "D" /\ e.key = ComposeName

\* the entries es with the name old replaced by new, K/V and D alike
RenamedEntries(es, old, new) ==
    [j \in 1..Len(es) |-> IF es[j].key = old THEN [es[j] EXCEPT !.key = new] ELSE es[j]]

\* C18: every property block that proprename old->new writes is the block
\* of the input with each entry named old, K/V entry or D marker, under the
\* name new in the same place and with the same value, whether or not the
\* block holds a K/V entry for old
C18_ProprenameRenamesInPlace ==
    cmd.name = "proprename" =>
        \A i \in EmittedRecords :
            emitted[i].properties
              = IF InputPropsOf(i) = <<>> THEN <<>>
                ELSE PropBlock(RenamedEntries(InputPropsOf(i)[1],
                                              Split(cmd.propnames[1], <<"-", ">">>)[1],
                                              Split(cmd.propnames[1], <<"-", ">">>)[2]))

(***************************************************************************)
(* setlog.  The log file is given by its entries, in file order, each with *)
(* the revision, the author and the text that NewLogfile takes from it.    *)
(***************************************************************************)
LogEntry(rev, author, text) == [rev |-> rev, author |-> author, text |-> text]

\* NewLogfile: the comments by revision, of the revisions in restrict only;
\* of two entries for one revision the later one stays
NewLogfile(entries, restrict) ==
    LET revs == {entries[j].rev : j \in 1..Len(entries)} \cap
                {r \in 0..MaxRevNum : RangeContains(restrict, r)}
        last(r) == CHOOSE j \in 1..Len(entries) :
                      /\ entries[j].rev = r
                      /\ \A k \in (j + 1)..Len(entries) : entries[k].rev # r
    IN [r \in revs |-> [author |-> entries[last(r)].author, text |-> entries[last(r)].text]]

LogFiles ==
    {<<LogEntry(1, <<"A", "l">>, <<"n", "e", "w">>)>>,
     <<LogEntry(1, <<"A", "l">>, <<"n", "e", "w">>), LogEntry(2, <<"B", "o">>, <<"o", "l", "d">>)>>,
     <<LogEntry(0, <<"B", "o">>, <<"z">>), LogEntry(2, <<"A", "l">>, <<"t", "w", "o">>)>>,
     <<LogEntry(1, <<"B", "o">>, <<"x">>)>>}

InitSetlog ==
    /\ dump \in ConsecutiveDumps(PropNodeLists)
    /\ cmd \in {[Command("setlog", sel) EXCEPT !.comments = NewLogfile(lf, sel)] :
                    lf \in LogFiles,
                    sel \in {Range(<< <<0, HEAD>> >>), Range(<< <<1, 2>> >>)}}
    /\ Start

SpecSetlog == InitSetlog /\ [][Report]_vars

\* the value of the K/V entry named k in the entries es, in a sequence of
\* length one, or <<>> when there is none
EntryValue(es, k) ==
    IF \E j \in 1..Len(es) : es[j].t = "K" /\ es[j].key = k
    THEN <<es[CHOOSE j \in 1..Len(es) : es[j].t = "K" /\ es[j].key = k].val>>
    ELSE <<>>

\* revision r of the input is one whose log setlog is to replace: it is
\* selected, has svn:log and the log file has an entry for it
HasLogPatch(r) ==
    /\ RangeContains(cmd.selection, r.num)
    /\ EntryValue(r.props, sSvnLog) # <<>>
    /\ r.num \in DOMAIN cmd.comments

\* the author of the entry is not the author of the revision
AuthorMismatch(r) ==
    cmd.comments[r.num].author
        # (IF EntryValue(r.props, sSvnAuthor) = <<>> THEN sNoAuthor
           ELSE EntryValue(r.props, sSvnAuthor)[1])

\* C19: under setlog, (1) the property block written for a revision that
\* has svn:log and an entry in the log file is the block of the input with
\* the text of the entry as svn:log, and the author of the entry is the
\* author of the revision; (2) the block written for any other revision and
\* for any node is the block of the input; (3) when the input holds a
\* selected revision with svn:log whose entry has another author, the run
\* does not end well and writes nothing of that revision or a later one
C19_SetlogChecksAuthor ==
    cmd.name = "setlog" =>
        /\ \A i \in EmittedOf("revision") :
              IF HasLogPatch(InputRevision(emitted[i].rev))
              THEN /\ ~AuthorMismatch(InputRevision(emitted[i].rev))
                   /\ emitted[i].properties
                        = PropBlock(SetEntry(InputRevision(emitted[i].rev).props, sSvnLog,
                                             cmd.comments[emitted[i].rev].text))
              ELSE emitted[i].properties = PropBlock(InputRevision(emitted[i].rev).props)
        /\ \A i \in EmittedOf("node") :
              emitted[i].properties
                = NodeProps(InputRevision(emitted[i].rev).nodes[emitted[i].index])
        /\ \A k \in 1..Len(dump.revs) :
              (HasLogPatch(dump.revs[k]) /\ AuthorMismatch(dump.revs[k])) =>
                  /\ pc # "done"
                  /\ \A i \in EmittedRecords : emitted[i].rev < dump.revs[k].num

\* C19, witness: a run of setlog has exited with status 1 at a revision
\* whose entry has another author, after writing an earlier revision with
\* the text of its entry as svn:log
C19_Witness ==
    /\ cmd.name = "setlog"
    /\ pc = "failed"
    /\ \E k \in 1..Len(dump.revs) :
          /\ HasLogPatch(dump.revs[k])
          /\ AuthorMismatch(dump.revs[k])
          /\ ds.Revision = dump.revs[k].num
    /\ \E i \in EmittedOf("revision") :
          /\ HasLogPatch(InputRevision(emitted[i].rev))
          /\ emitted[i].properties # PropBlock(InputRevision(emitted[i].rev).props)

(***************************************************************************)
(* renumber.                                                               *)
(***************************************************************************)
hdRevisionNumber == <<"R","e","v","i","s","i","o","n","-","n","u","m","b","e","r">>
hdTextContentLength == <<"T","e","x","t","-","c","o","n","t","e","n","t","-","l","e","n","g","t","h">>
hdDumpFormatVersion ==
    <<"S","V","N","-","f","s","-","d","u","m","p","-","f","o","r","m","a","t","-",
      "v","e","r","s","i","o","n">>
hdUUID == <<"U","U","I","D">>

\* renumbering[key] of a Go map[string]int: 0 for a key that is not there
renumbered(renumbering, key) ==
    IF key \in DOMAIN renumbering THEN renumbering[key] ELSE 0

\* renumberMergeInfo, the loop over the bytes after the first colon of a
\* line: a run of digits is replaced when a byte that is no digit follows it
RECURSIVE renumberRanges(_, _, _, _)
renumberRanges(field, i, digits, renumbering) ==
    IF i > Len(field) THEN <<>>
    ELSE IF IsDigit(field[i])
    THEN renumberRanges(field, i + 1, Append(digits, field[i]), renumbering)
    ELSE (IF Len(digits) > 0 THEN Itoa(renumbered(renumbering, digits)) ELSE <<>>)
         \o <<field[i]>> \o renumberRanges(field, i + 1, <<>>, renumbering)

\* renumberMergeInfo, the body of its loop: line ends in the "\n" appended
renumberMergeInfoLine(fields, renumbering) ==
    IF Len(fields) = 1 THEN fields[1]
    ELSE fields[1] \o <<":">> \o renumberRanges(fields[2], 1, <<>>, renumbering)

RECURSIVE renumberMergeInfoLines(_, _)
renumberMergeInfoLines(pieces, renumbering) ==
    IF pieces = <<>> THEN <<>>
    ELSE renumberMergeInfoLine(Split(Head(pieces) \o linesep, <<":">>), renumbering)
         \o renumberMergeInfoLines(Tail(pieces), renumbering)

\* renumberMergeInfo that returns the value as it came
renumberMergeInfo_verbatim(lines, renumbering) == lines

renumberMergeInfo(lines, renumbering) ==
    renumberMergeInfoLines(Split(lines, linesep), renumbering)

\* the locals of renumber; base is the value of the flag -base
renumberLocals(base) ==
    [headerState |-> "AwaitingHeader", propParserState |-> "awaitingNext",
     textContentLength |-> 0, propContentLength |-> 0, counter |-> base,
     renumbering |-> [key \in {} |-> 0]]

\* the arm of the if-chain of renumber a line that is neither empty nor
\* blank takes
renumberArm(line) ==
    IF payload(hdRevisionNumber, line).ok THEN "Revision-number"
    ELSE IF payload(sNodePath, line).ok THEN "Node-path"
    ELSE IF payload(hdTextContentLength, line).ok THEN "Text-content-length"
    ELSE IF payload(hdDumpFormatVersion, line).ok THEN "SVN-fs-dump-format-version"
    ELSE IF payload(hdUUID, line).ok THEN "UUID"
    ELSE IF payload(sPropContentLengthHd, line).ok THEN "Prop-content-length"
    ELSE IF payload(sNodeCopyfromRev, line).ok THEN "Node-copyfrom-rev"
    ELSE "other"

\* what one pass of the loop of renumber leaves: the source, the locals,
\* what was written, and where the program goes on
renumberPass(l, locals, es, next) ==
    /\ lbs' = l
    /\ rp' = locals
    /\ out' = out \o EmittedBytes(es)
    /\ emitted' = emitted \o es
    /\ pc' = IF l.st # "ok" THEN "failed" ELSE next
    /\ UNCHANGED <<input, cmd, ds, hk, dump, run>>

\* os.Stdout.Write of a line or of bytes of the input; rev is the number the
\* next revision will get
Copied(rev, line) == Emitted("copied", rev, line, <<>>, <<>>, <<>>)

\* the content of a node is written with the line that follows it
renumberText(l, locals, line) ==
    LET Written(text, nl) ==
            renumberPass(nl.l, [locals EXCEPT !.headerState = "AwaitingHeader"],
                         <<Copied(locals.counter, line),
                           Emitted("copied", locals.counter, <<>>, <<>>, text.text, nl.line)>>,
                         "renumber")
        Text(text) == Written(text, Readline(text.l))
    IN Text(Read(l, locals.textContentLength))

\* renumber, up to its loop
renumberEnter ==
    /\ pc = "main"
    /\ cmd.name = "renumber"
    /\ pc' = "renumber"
    /\ rp' = renumberLocals(cmd.base)
    /\ UNCHANGED <<input, lbs, out, cmd, ds, hk, emitted, dump, run>>

\* renumber: the input has ended
renumberEOF ==
    /\ pc = "renumber"
    /\ Len(Readline(lbs).line) = 0
    /\ renumberPass(Readline(lbs).l, rp, <<>>, "done")

\* renumber: a blank line ends a header or a property block
renumberBlankLine ==
    /\ pc = "renumber"
    /\ Readline(lbs).line = linesep
    /\ LET hs == IF rp.headerState = "InHeader"
                 THEN (IF rp.propContentLength > 0 THEN "InProps"
                       ELSE IF rp.textContentLength > 0 THEN "InText"
                       ELSE "AwaitingHeader")
                 ELSE IF rp.headerState = "InProps" /\ rp.propParserState = "propsEnd"
                 THEN (IF rp.textContentLength > 0 THEN "InText" ELSE "AwaitingHeader")
                 ELSE rp.headerState
       IN IF rp.headerState = "InProps" /\ rp.propParserState # "propsEnd"
          THEN renumberPass(Readline(lbs).l, rp, <<>>, "failed")
          ELSE IF hs = "InText"
          THEN renumberText(Readline(lbs).l, rp, linesep)
          ELSE renumberPass(Readline(lbs).l, [rp EXCEPT !.headerState = hs],
                            <<Copied(rp.counter, linesep)>>, "renumber")

\* renumber: a revision begins and gets the next number
renumberRevisionNumber ==
    /\ pc = "renumber"
    /\ Readline(lbs).line \notin {<<>>, linesep}
    /\ renumberArm(Readline(lbs).line) = "Revision-number"
    /\ IF rp.headerState # "AwaitingHeader"
       THEN renumberPass(Readline(lbs).l, rp, <<>>, "failed")
       ELSE renumberPass(
                Readline(lbs).l,
                [rp EXCEPT !.headerState = "InHeader", !.propContentLength = 0,
                           !.textContentLength = 0, !.propParserState = "awaitingNext",
                           !.renumbering = (payload(hdRevisionNumber, Readline(lbs).line).val
                                                :> rp.counter) @@ @,
                           !.counter = @ + 1],
                <<Emitted("number", rp.counter,
                          HeaderLine(hdRevisionNumber, Itoa(rp.counter)), <<>>, <<>>, <<>>)>>,
                "renumber")

\* renumber: a node begins
renumberNodePath ==
    /\ pc = "renumber"
    /\ Readline(lbs).line \notin {<<>>, linesep}
    /\ renumberArm(Readline(lbs).line) = "Node-path"
    /\ IF rp.headerState # "AwaitingHeader"
       THEN renumberPass(Readline(lbs).l, rp, <<>>, "failed")
       ELSE renumberPass(
                Readline(lbs).l,
                [rp EXCEPT !.headerState = "InHeader", !.propContentLength = 0,
                           !.textContentLength = 0, !.propParserState = "awaitingNext"],
                <<Copied(rp.counter, Readline(lbs).line)>>, "renumber")

\* renumber: the header lines that are written as they are, the two lengths
\* among them
renumberHeaderLine ==
    /\ pc = "renumber"
    /\ Readline(lbs).line \notin {<<>>, linesep}
    /\ LET Arm(line, arm) ==
            /\ arm \in {"Text-content-length", "SVN-fs-dump-format-version", "UUID",
                        "Prop-content-length"}
            /\ renumberPass(
                   Readline(lbs).l,
                   [rp EXCEPT !.textContentLength =
                                  IF arm = "Text-content-length"
                                  THEN Atoi(payload(hdTextContentLength, line).val).val
                                  ELSE @,
                              !.propContentLength =
                                  IF arm = "Prop-content-length"
                                  THEN Atoi(payload(sPropContentLengthHd, line).val).val
                                  ELSE @],
                   <<Copied(rp.counter, line)>>, "renumber")
       IN Arm(Readline(lbs).line, renumberArm(Readline(lbs).line))

\* renumber: the revision a node was copied from
renumberCopyfromRev ==
    /\ pc = "renumber"
    /\ Readline(lbs).line \notin {<<>>, linesep}
    /\ renumberArm(Readline(lbs).line) = "Node-copyfrom-rev"
    /\ renumberPass(
           Readline(lbs).l, rp,
           <<Emitted("copyfrom",
                     renumbered(rp.renumbering, payload(sNodeCopyfromRev, Readline(lbs).line).val),
                     HeaderLine(sNodeCopyfromRev,
                                Itoa(renumbered(rp.renumbering,
                                                payload(sNodeCopyfromRev, Readline(lbs).line).val))),
                     <<>>, <<>>, <<>>)>>,
           "renumber")

\* renumber, a line after the key line "K n" of a property block: the name,
\* the length line, the value and the end of its last line
renumberKeyValue(l, line) ==
    LET Value(lengthline, value, nl) ==
            IF HasPrefix(line, sSvnMergeinfo)
            THEN renumberPass(nl.l, [rp EXCEPT !.propParserState = "awaitingNext"],
                              <<Emitted("mergeinfo", rp.counter, line \o lengthline.line, <<>>,
                                        renumberMergeInfo(value.text, rp.renumbering), <<>>)>>,
                              "renumber")
            ELSE renumberPass(nl.l, [rp EXCEPT !.propParserState = "awaitingNext"],
                              <<Emitted("copied", rp.counter, line \o lengthline.line, <<>>,
                                        value.text, nl.line)>>,
                              "renumber")
        Ended(lengthline, value) == Value(lengthline, value, Readline(value.l))
        Length(lengthline, fields) ==
            IF Len(fields) < 2
            THEN renumberPass(lengthline.l, rp,
                              <<Copied(rp.counter, line \o lengthline.line)>>, "failed")
            ELSE Ended(lengthline, Read(lengthline.l, Atoi(fields[2]).val))
        Name(lengthline) == Length(lengthline, Fields(lengthline.line))
    IN Name(Readline(l))

\* renumber, a line of a property block
renumberProps(l, line) ==
    IF rp.propParserState = "awaitingNext"
    THEN IF HasPrefix(line, <<"K", " ">>)
         THEN renumberPass(l, [rp EXCEPT !.propParserState = "awaitingKeyValue"],
                           <<Copied(rp.counter, line)>>, "renumber")
         ELSE IF HasPrefix(line, <<"D", " ">>)
         THEN renumberPass(l, [rp EXCEPT !.propParserState = "awaitingPropDelete"],
                           <<Copied(rp.counter, line)>>, "renumber")
         ELSE IF HasPrefix(line, sPropsEnd)
         THEN IF rp.textContentLength > 0
              THEN renumberText(l, [rp EXCEPT !.propParserState = "propsEnd"], line)
              ELSE renumberPass(l, [rp EXCEPT !.propParserState = "propsEnd"],
                                <<Copied(rp.counter, line)>>, "renumber")
         ELSE renumberPass(l, rp, <<>>, "failed")
    ELSE IF rp.propParserState = "awaitingPropDelete"
    THEN renumberPass(l, [rp EXCEPT !.propParserState = "awaitingNext"],
                      <<Copied(rp.counter, line)>>, "renumber")
    ELSE IF rp.propParserState = "awaitingKeyValue"
    THEN renumberKeyValue(l, line)
    ELSE renumberPass(l, rp, <<Copied(rp.counter, line)>>, "renumber")

\* renumber: any other line
renumberOtherLine ==
    /\ pc = "renumber"
    /\ Readline(lbs).line \notin {<<>>, linesep}
    /\ renumberArm(Readline(lbs).line) = "other"
    /\ IF rp.headerState = "InProps"
       THEN renumberProps(Readline(lbs).l, Readline(lbs).line)
       ELSE renumberPass(Readline(lbs).l, rp, <<Copied(rp.counter, Readline(lbs).line)>>,
                         "renumber")

renumber ==
    \/ renumberEnter
    \/ renumberEOF
    \/ renumberBlankLine
    \/ renumberRevisionNumber
    \/ renumberNodePath
    \/ renumberHeaderLine
    \/ renumberCopyfromRev
    \/ renumberOtherLine

\* the values of -base
RenumberBases == {0, 10}

\* the paths of the lines of a merge information: Subversion takes the last
\* colon of a line as the end of the path, so a path may hold a colon
MergeinfoPaths == {<<"/","v","1">>, <<"/","a",":","b">>}

\* a merge information of two lines, the last one without a line end:
\* path:a-b*,b and /doc:a
MergeinfoValue(path, a, b) ==
    path \o <<":">> \o Itoa(a) \o <<"-">> \o Itoa(b) \o <<"*", ",">> \o Itoa(b) \o linesep
    \o <<"/","d","o","c",":">> \o Itoa(a)

\* a directory copied from revision src with the merge information of path
CopiedDir(src, path, a, b) ==
    [NoNode EXCEPT !.path = <<"t","a","g","s","/","r">>, !.kind = sDir,
                   !.action = <<"a","d","d">>,
                   !.copyfrom = <<src, <<"t","r","u","n","k">> >>,
                   !.props = << <<KV(sSvnMergeinfo, MergeinfoValue(path, a, b)),
                                  DEL(<<"p">>)>> >>]

\* the nodes of the i-th revision of a dump with the revision numbers ns: no
\* node, a file, or a copy of the revision one below with the merge
\* information of the first revision up to this one
RenumberShapes == {"none", "file", "copy", "colon"}

RenumberNodes(ns, i, shape) ==
    IF shape = "file" THEN <<NodeFileA>>
    ELSE IF shape = "copy"
    THEN <<CopiedDir(ns[i] - 1, <<"/","v","1">>, ns[1], ns[i]), NodeFileB>>
    ELSE IF shape = "colon"
    THEN <<CopiedDir(ns[i] - 1, <<"/","a",":","b">>, ns[1], ns[i])>>
    ELSE <<>>

\* the dumps of up to MaxRevs revisions whose numbers may have gaps, as
\* select and deselect leave them; the first revision has no nodes
RenumberDumps ==
    UNION {
        {[revs |-> [i \in 1..n |-> [num |-> ns[i], props |-> RevProps(ns[i]),
                                    nodes |-> IF i = 1 THEN <<>>
                                              ELSE RenumberNodes(ns, i, shapes[i])]]] :
            ns \in IncreasingSeqs(n), shapes \in [2..n -> RenumberShapes]}
        : n \in 1..MaxRevs}

InitRenumber ==
    /\ dump \in RenumberDumps
    /\ cmd \in {[base |-> b] @@ Command("renumber", Range(<< <<0, HEAD>> >>)) :
                    b \in RenumberBases}
    /\ Start

SpecRenumber == InitRenumber /\ [][renumber]_vars

\* what renumber has written of one kind, in the order it was written
EmittedSeq(kind) == SelectSeq(emitted, LAMBDA e : e.kind = kind)

\* the numbers of the revisions of the input
InputNums == {dump.revs[k].num : k \in 1..Len(dump.revs)}

\* the number renumber is to give the revision num of the input: the i-th
\* revision, i counted from 0, gets base+i
NewNumber(num) ==
    cmd.base + (CHOOSE k \in 1..Len(dump.revs) : dump.revs[k].num = num) - 1

RECURSIVE NodesOf(_)
NodesOf(revs) == IF revs = <<>> THEN <<>> ELSE Head(revs).nodes \o NodesOf(Tail(revs))

\* the nodes of the input that name a revision they were copied from
InputCopies == SelectSeq(NodesOf(dump.revs), LAMBDA nd : nd.copyfrom # <<>>)

\* the k-th merge information written is the one of the input with every
\* revision number replaced by the new number of that revision
MergeinfoRenumbered(k) ==
    \A path \in MergeinfoPaths : \A a, b \in InputNums :
        EntryValue(InputCopies[k].props[1], sSvnMergeinfo) = <<MergeinfoValue(path, a, b)>>
            => EmittedSeq("mergeinfo")[k].content
                   = MergeinfoValue(path, NewNumber(a), NewNumber(b)) \o linesep

\* C20: renumber writes the i-th Revision-number line of the input, i
\* counted from 0, as base+i, so the numbers written are base, base+1, ...
\* without a gap; it writes every Node-copyfrom-rev that names a revision of
\* the input with the new number of that revision, and every revision number
\* inside every svn:mergeinfo value with the new number of the revision it
\* named; what it has written is the output, and a run that ends has written
\* a number for every revision and a line for every copy of the input
C20_RenumberMapsRevisions ==
    cmd.name = "renumber" =>
        /\ out = EmittedBytes(emitted)
        /\ \A k \in 1..Len(EmittedSeq("number")) :
              EmittedSeq("number")[k].header
                 = HeaderLine(hdRevisionNumber, Itoa(cmd.base + k - 1))
        /\ Len(EmittedSeq("copyfrom")) <= Len(InputCopies)
        /\ Len(EmittedSeq("mergeinfo")) <= Len(InputCopies)
        /\ \A k \in 1..Len(EmittedSeq("copyfrom")) :
              InputCopies[k].copyfrom[1] \in InputNums =>
                  EmittedSeq("copyfrom")[k].header
                     = HeaderLine(sNodeCopyfromRev, Itoa(NewNumber(InputCopies[k].copyfrom[1])))
        /\ \A k \in 1..Len(EmittedSeq("mergeinfo")) : MergeinfoRenumbered(k)
        /\ pc = "done" =>
              /\ Len(EmittedSeq("number")) = Len(dump.revs)
              /\ Len(EmittedSeq("copyfrom")) = Len(InputCopies)
              /\ Len(EmittedSeq("mergeinfo")) = Len(InputCopies)

\* the numbers renumber has given to revisions
EmittedNumbers == {EmittedSeq("number")[k].rev : k \in 1..Len(EmittedSeq("number"))}

\* C21: in what renumber has written, every Node-copyfrom-rev names a
\* revision number that was written before it, whatever the input and the
\* base, also when the revision the node was copied from is not in the input
C21_CopyfromRevPresent ==
    cmd.name = "renumber" =>
        /\ out = EmittedBytes(emitted)
        /\ \A k \in 1..Len(EmittedSeq("copyfrom")) :
              /\ EmittedSeq("copyfrom")[k].header
                    = HeaderLine(sNodeCopyfromRev, Itoa(EmittedSeq("copyfrom")[k].rev))
              /\ EmittedSeq("copyfrom")[k].rev \in EmittedNumbers

hdContentLength == <<"C","o","n","t","e","n","t","-","l","e","n","g","t","h">>

\* the first entry after entry i of what was written that satisfies P, 0
\* when there is none yet
FirstAfter(i, P(_)) ==
    IF \E j \in (i + 1)..Len(emitted) : P(emitted[j])
    THEN CHOOSE j \in (i + 1)..Len(emitted) :
            P(emitted[j]) /\ \A k \in (i + 1)..(j - 1) : ~P(emitted[k])
    ELSE 0

IsLine(e, line) == e.kind = "copied" /\ e.header = line

\* the header lines "name: n" that renumber has copied
LengthLines(name) ==
    {i \in 1..Len(emitted) : emitted[i].kind = "copied" /\ payload(name, emitted[i].header).ok}

LengthOf(name, i) == Atoi(payload(name, emitted[i].header).val).val

\* the property block written after the header that holds line i: from the
\* entry after the blank line that ends the header up to its PROPS-END
BlockBegin(i) == FirstAfter(i, LAMBDA e : IsLine(e, linesep)) + 1

BlockEnd(i) == FirstAfter(i, LAMBDA e : IsLine(e, sPropsEnd \o linesep))

BlockWritten(i) == EmittedBytes(SubSeq(emitted, BlockBegin(i), BlockEnd(i)))

\* the content written after the block of line i, with nothing for a record
\* without content
TextWritten(i) ==
    IF BlockEnd(i) < Len(emitted) /\ emitted[BlockEnd(i) + 1].header = <<>>
    THEN emitted[BlockEnd(i) + 1].content
    ELSE <<>>

\* the header that holds line i has a Prop-content-length line before it
HasBlock(i) ==
    \E p \in LengthLines(sPropContentLengthHd) :
        p < i /\ \A k \in p..i : ~IsLine(emitted[k], linesep)

\* the content written after the header of line i of a record that has no
\* property block
BareTextWritten(i) ==
    IF emitted[BlockBegin(i)].header = <<>> THEN emitted[BlockBegin(i)].content ELSE <<>>

\* C22: what renumber writes is well-formed: the length line "V n" of every
\* svn:mergeinfo entry gives the length of the value written, and for every
\* revision and node Prop-content-length is the length of the property
\* block written and Content-length the length of the block and the content
\* written, also when the new revision numbers of a merge
\* information have more or fewer digits than the old ones
C22_RenumberLengthsAgree ==
    cmd.name = "renumber" =>
        /\ out = EmittedBytes(emitted)
        /\ \A k \in 1..Len(EmittedSeq("mergeinfo")) :
              EmittedSeq("mergeinfo")[k].header
                 = sSvnMergeinfo \o linesep \o <<"V", " ">>
                   \o Itoa(Len(EmittedSeq("mergeinfo")[k].content) - 1) \o linesep
        /\ \A i \in LengthLines(sPropContentLengthHd) :
              BlockEnd(i) # 0 => LengthOf(sPropContentLengthHd, i) = Len(BlockWritten(i))
        /\ \A i \in LengthLines(hdContentLength) :
              /\ (HasBlock(i) /\ BlockEnd(i) # 0 /\ BlockEnd(i) < Len(emitted)) =>
                     LengthOf(hdContentLength, i)
                        = Len(BlockWritten(i)) + Len(TextWritten(i))
              /\ (~HasBlock(i) /\ BlockBegin(i) \in 2..Len(emitted)) =>
                     LengthOf(hdContentLength, i) = Len(BareTextWritten(i))

(***************************************************************************)
(* testify.                                                                *)
(***************************************************************************)
NeutralUser == <<"f","r","e","d">>

\* a number below 100 in two digits
TwoDigits(n) == <<Digits[(n \div 10) + 1], Digits[(n % 10) + 1]>>

\* time.Unix(secs, 0).UTC().Format(time.RFC3339)[:19] + ".000000Z", for the
\* seconds of January 1970
testifyTime(secs) ==
    <<"1","9","7","0","-","0","1","-">> \o TwoDigits(1 + secs \div 86400) \o <<"T">>
    \o TwoDigits((secs % 86400) \div 3600) \o <<":">>
    \o TwoDigits((secs % 3600) \div 60) \o <<":">>
    \o TwoDigits(secs % 60) \o <<".","0","0","0","0","0","0","Z">>

\* testify, up to its loop; base is the value of the flag -base
testifyEnter ==
    /\ pc = "main"
    /\ cmd.name = "testify"
    /\ pc' = "testify"
    /\ rp' = [counter |-> cmd.base, state |-> 0]
    /\ UNCHANGED <<input, lbs, out, cmd, ds, hk, emitted, dump, run>>

\* testify: the input has ended
testifyEOF ==
    /\ pc = "testify"
    /\ Len(Readline(lbs).line) = 0
    /\ lbs' = Readline(lbs).l
    /\ pc' = "done"
    /\ UNCHANGED <<input, out, cmd, ds, rp, hk, emitted, dump, run>>

\* testify: the UUID line of the preamble is left out
testifyUUID ==
    /\ pc = "testify"
    /\ Len(Readline(lbs).line) # 0
    /\ payload(hdUUID, Readline(lbs).line).ok
    /\ Readline(lbs).l.linenumber <= 10
    /\ lbs' = Readline(lbs).l
    /\ UNCHANGED <<input, out, pc, cmd, ds, rp, hk, emitted, dump, run>>

\* testify: the length line of the value of svn:author
testifyLength(line) == <<"V", " ">> \o Itoa(Len(NeutralUser)) \o linesep

\* testify: any other line.  state counts the lines since the name of
\* svn:author (1 to 3) or of svn:date (4 to 6).
testifyLine ==
    /\ pc = "testify"
    /\ Len(Readline(lbs).line) # 0
    /\ ~(payload(hdUUID, Readline(lbs).line).ok /\ Readline(lbs).l.linenumber <= 10)
    /\ LET Write(counter, state, kind, line) ==
               /\ out' = out \o line
               /\ emitted' = Append(emitted, Emitted(kind, counter, line, <<>>, <<>>, <<>>))
               /\ rp' = [counter |-> counter,
                         state |-> IF state >= 2 THEN state + 1 ELSE state]
           Replace(counter, state, kind, line) ==
               IF state = 3 THEN Write(counter, 0, "author", NeutralUser \o linesep)
               ELSE IF state = 6
               THEN Write(counter, 0, "date", testifyTime((counter - 1) * 10) \o linesep)
               ELSE Write(counter, state, kind, line)
           Line(line) ==
               IF payload(hdRevisionNumber, line).ok
               THEN Replace(rp.counter + 1, rp.state, "copied", line)
               ELSE IF HasPrefix(line, sSvnAuthor)
               THEN Replace(rp.counter, 1, "copied", line)
               ELSE IF rp.state = 1 /\ HasPrefix(line, <<"V", " ">>)
               THEN Replace(rp.counter, 2, "length", testifyLength(line))
               ELSE IF HasPrefix(line, <<"s","v","n",":","d","a","t","e">>)
               THEN Replace(rp.counter, 4, "copied", line)
               ELSE IF HasPrefix(line, sPropsEnd)
               THEN Replace(rp.counter, 0, "copied", line)
               ELSE Replace(rp.counter, rp.state, "copied", line)
       IN Line(Readline(lbs).line)
    /\ lbs' = Readline(lbs).l
    /\ UNCHANGED <<input, pc, cmd, ds, hk, dump, run>>

testify ==
    \/ testifyEnter
    \/ testifyEOF
    \/ testifyUUID
    \/ testifyLine

\* the property block of a revision as svnadmin writes it: revision 0 holds
\* a date only; a date has 27 bytes
sSvnDate == <<"s","v","n",":","d","a","t","e">>

DateOf(num) ==
    <<"2","0","1","1","-","1","1","-","3","0","T","1","6",":","4","1",":","5">>
    \o Itoa(num) \o <<".","1","5","4","7","5","4","Z">>

TestifyRevProps(num, author) ==
    IF num = 0 THEN <<KV(sSvnDate, DateOf(0))>>
    ELSE <<KV(sSvnLog, <<"m","s","g">> \o Itoa(num) \o linesep),
           KV(sSvnAuthor, author),
           KV(sSvnDate, DateOf(num))>>

\* the authors of the input: one as long as the neutral user, one shorter
TestifyAuthors == {<<"A","l">>, <<"a","l","m","a">>}

TestifyNodeLists == {<<>>, <<NodeFileA, NodeDir>>}

\* the dumps of up to MaxRevs revisions numbered from 0 on
TestifyDumps ==
    UNION {
        {[revs |-> [i \in 1..n |-> [num |-> i - 1, props |-> TestifyRevProps(i - 1, au[i]),
                                    nodes |-> IF i = 1 THEN <<>> ELSE nl[i]]]] :
            au \in [1..n -> TestifyAuthors], nl \in [1..n -> TestifyNodeLists]}
        : n \in 1..MaxRevs}

InitTestify ==
    /\ dump \in TestifyDumps
    /\ cmd \in {[base |-> b] @@ Command("testify", Range(<< <<0, HEAD>> >>)) :
                    b \in RenumberBases}
    /\ Start

SpecTestify == InitTestify /\ [][testify]_vars

\* line p and line i of what was written are lines of one header: no blank
\* line was written from p to i
SameHeader(p, i) == p < i /\ \A k \in p..i : ~IsLine(emitted[k], linesep)

\* line i is a line of the header of a revision
InRevisionHeader(i) ==
    \E p \in 1..(i - 1) :
        payload(hdRevisionNumber, emitted[p].header).ok /\ SameHeader(p, i)

\* C23: what testify writes is well-formed: in every revision header
\* written, Prop-content-length and Content-length are the length in bytes
\* of the property block written after it, in which the value of svn:author
\* is the fixed name and the value of svn:date the generated time
C23_TestifyLengthsAgree ==
    cmd.name = "testify" =>
        /\ out = EmittedBytes(emitted)
        /\ \A i \in LengthLines(sPropContentLengthHd) \cup LengthLines(hdContentLength) :
              (InRevisionHeader(i) /\ BlockEnd(i) # 0) =>
                  Atoi(SubSeq(emitted[i].header, Index(emitted[i].header, <<":", " ">>) + 2,
                              Len(emitted[i].header) - 1)).val
                     = Len(BlockWritten(i))

(***************************************************************************)
(* log.                                                                    *)
(***************************************************************************)
InitLog ==
    /\ dump \in TestifyDumps
    /\ cmd \in {Command("log", sel) : sel \in Selections}
    /\ Start

SpecLog == InitLog /\ [][Report]_vars

\* C26: log honors the selection: it prints an entry for a revision only if
\* the revision is in the selection, and none for a revision before, between
\* or after the intervals of the selection
C26_LogHonorsSelection ==
    cmd.name = "log" =>
        /\ out = EmittedBytes(emitted)
        /\ \A i \in EmittedOf("log") : RangeContains(cmd.selection, emitted[i].rev)

(***************************************************************************)
(* reduce: a Report over the whole input that marks the revisions of       *)
(* interest, then a select of the marked ones.                             *)
(***************************************************************************)
\* LineBufferedSource.Rewind: the reader starts over at the head of the file
Rewind(l) == [l EXCEPT !.pos = 1]

\* the selection reduce builds: "i," for every marked i up to maxRev, the
\* last comma cut off, handed to NewSubversionRange
reduceSelection(h) ==
    LET marked == {i \in 0..h.maxRev : i \in h.interesting}
        nth(k) == CHOOSE i \in marked : Cardinality({j \in marked : j < i}) = k - 1
    IN Range([k \in 1..Cardinality(marked) |-> <<nth(k), nth(k)>>])

\* reduce, after its Report has ended: Rewind and sselect, up to the loop of
\* doSelect
reduceSelect ==
    /\ pc = "done"
    /\ cmd.name = "reduce"
    /\ run.n = 1
    /\ LET selection == reduceSelection(hk)
       IN /\ cmd' = [cmd EXCEPT !.selection = selection]
          /\ rp' = [rp EXCEPT !.emit = RangeContains(selection, 0)]
    /\ lbs' = Rewind(lbs)
    /\ run' = [run EXCEPT !.n = 2]
    /\ pc' = "doSelect"
    /\ UNCHANGED <<input, out, ds, hk, emitted, dump>>

reduce == Report \/ reduceSelect \/ doSelectLoop

\* a file changed by a copy of its earlier self
NodeFileCopy == [NoNode EXCEPT !.path = <<"d","o","c","/","b">>, !.kind = sFile,
                !.action = <<"c","h","a","n","g","e">>,
                !.copyfrom = <<2, <<"d","o","c","/","c">> >>,
                !.text = << <<"a","b","a">> >>]

ReduceNodeLists == {<<>>, <<NodeFileB>>, <<NodeFileB, NodeBareDir>>, <<NodeFileCopy>>}

InitReduce ==
    /\ dump \in DumpsOver(ReduceNodeLists)
    /\ cmd = Command("reduce", Range(<< <<0, HEAD>> >>))
    /\ Start

SpecReduce == InitReduce /\ [][reduce]_vars

\* the revisions of d that reduce's help text calls interesting: one with an
\* operation that is not a plain file modification, or with an operation on
\* properties, or one that a copy names as its source
InterestingRevs(d) ==
    {d.revs[i].num : i \in {i \in 1..Len(d.revs) :
        \E j \in 1..Len(d.revs[i].nodes) :
            LET nd == d.revs[i].nodes[j]
            IN \/ ~(nd.kind = sFile /\ nd.action = <<"c","h","a","n","g","e">>)
               \/ nd.props # <<>>}}
    \cup {d.revs[i].nodes[j].copyfrom[1] : <<i, j>> \in
            {p \in (1..Len(d.revs)) \X (1..3) :
                /\ p[2] <= Len(d.revs[p[1]].nodes)
                /\ d.revs[p[1]].nodes[p[2]].copyfrom # <<>>}}

\* the revisions that are interesting or next to an interesting one
KeptRevs(d) ==
    {r \in 0..(MaxRevNum + 1) : InterestingRevs(d) \cap {r - 1, r, r + 1} # {}}

RECURSIVE RecordsOf(_, _)
RecordsOf(revs, kept) ==
    IF revs = <<>> THEN <<>>
    ELSE (IF Head(revs).num \in kept THEN RevisionRecord(Head(revs)) ELSE <<>>)
         \o RecordsOf(Tail(revs), kept)

\* C24: when reduce has ended, its output is, after the preamble or without
\* it, the records of exactly the revisions that are interesting or next to
\* an interesting one, in input order.
C24_ReduceKeepsNeighbours ==
    (pc = "done" /\ cmd.name = "reduce" /\ run.n = 2)
        => out \in {Preamble \o RecordsOf(dump.revs, KeptRevs(dump)),
                    RecordsOf(dump.revs, KeptRevs(dump))}

\* what the code keeps: revision 0, and of the others those that are
\* interesting or next to an interesting one and not after the last
\* revision that has a node
LastWithNode(d) ==
    LET with == {d.revs[i].num : i \in {i \in 1..Len(d.revs) : d.revs[i].nodes # <<>>}}
    IN IF with = {} THEN 0 ELSE CHOOSE m \in with : \A k \in with : k <= m

ReduceAsCoded ==
    (pc = "done" /\ cmd.name = "reduce" /\ run.n = 2)
        => out = Preamble \o RecordsOf(dump.revs,
                     {0} \cup {r \in KeptRevs(dump) : r <= LastWithNode(dump)})

(***************************************************************************)
(* see: a Report whose node hook prints a line for every node.             *)
(***************************************************************************)
\* a file replaced by a copy of an earlier one
NodeReplace == [NoNode EXCEPT !.path = <<"t","r","u","n","k","/","a">>, !.kind = sFile,
                !.action = <<"r","e","p","l","a","c","e">>,
                !.copyfrom = <<1, <<"d","o","c","/","b">> >>,
                !.text = << <<"a","b","a">> >>, !.sums = TRUE]

SeeNodeLists == {<<>>, <<NodeFileA, NodeCopy>>, <<NodeReplace, NodeDelete, NodeBareDir>>}

InitSee ==
    /\ dump \in ConsecutiveDumps(SeeNodeLists)
    /\ cmd \in {Command("see", sel) : sel \in Selections}
    /\ Start

SpecSee == InitSee /\ [][Report]_vars

\* the line of node nd, the index-th of revision rev, with the given action
SeeLine(rev, index, nd, action) ==
    LET slash == IF nd.kind = sDir THEN <<"/">> ELSE <<>>
    IN Printed("see", rev, index,
               PadRight(Itoa(rev) \o <<"-">> \o Itoa(index), 5) \o <<" ">>
               \o PadRight(action, 8) \o <<" ">> \o nd.path \o slash
               \o (IF nd.copyfrom = <<>> THEN <<>>
                   ELSE <<" ","f","r","o","m"," ">> \o Itoa(nd.copyfrom[1]) \o <<":">>
                        \o nd.copyfrom[2] \o slash)
               \o linesep)

sCopy == <<"c","o","p","y">>

\* the action the help text gives: an add with a copy source is a copy
AddShownAsCopy(nd) ==
    IF nd.action = <<"a","d","d">> /\ nd.copyfrom # <<>> THEN sCopy ELSE nd.action

\* the action the code gives: whatever has a copy source is a copy
CopySourceShownAsCopy(nd) == IF nd.copyfrom # <<>> THEN sCopy ELSE nd.action

\* the lines of the nodes of the selected revisions, in stream order, the
\* action of a node as the help text gives it or as the code does
RECURSIVE SeeLines(_, _, _)
SeeLines(revs, sel, ashelp) ==
    IF revs = <<>> THEN <<>>
    ELSE (IF RangeContains(sel, Head(revs).num)
          THEN [j \in 1..Len(Head(revs).nodes) |->
                   SeeLine(Head(revs).num, j, Head(revs).nodes[j],
                           IF ashelp THEN AddShownAsCopy(Head(revs).nodes[j])
                           ELSE CopySourceShownAsCopy(Head(revs).nodes[j]))]
          ELSE <<>>)
         \o SeeLines(Tail(revs), sel, ashelp)

\* C25: when see has ended, what it has printed is one line for every node
\* of every selected revision, in stream order, labelled with the revision
\* and the index of the node in its revision counted from 1, and showing the
\* action of the node, or copy for an add with a copy source.
C25_SeeOneLinePerNode ==
    (pc = "done" /\ cmd.name = "see")
        => /\ out = EmittedBytes(emitted)
           /\ emitted = SeeLines(dump.revs, cmd.selection, TRUE)

\* the same with copy shown for every node with a copy source
SeeAsCoded ==
    (pc = "done" /\ cmd.name = "see")
        => /\ out = EmittedBytes(emitted)
           /\ emitted = SeeLines(dump.revs, cmd.selection, FALSE)

(***************************************************************************)
(* pop and swap on node paths and on merge information.                    *)
(***************************************************************************)
\* a directory copied into a branch, with merge information as its only
\* property
NodeMerged(value) ==
    [NoNode EXCEPT !.path = <<"b","r","a","n","c","h","e","s","/","b","/","c">>,
                   !.kind = sDir, !.action = <<"a","d","d">>,
                   !.copyfrom = <<1, <<"t","r","u","n","k","/","a">> >>,
                   !.props = << <<KV(sSvnMergeinfo, value)>> >>]

\* merge information as svn writes it, two lines of /path:ranges, and a
\* single line whose path has three segments and no leading slash
MergedTwoLines ==
    <<"/","t","r","u","n","k","/","a",":","1","-","2","\n",
      "/","b","r","a","n","c","h","e","s","/","b",":","1">>

MergedOneLine == <<"t","r","u","n","k","/","a","/","c",":","1">>

PathNodeLists ==
    {<<>>, <<NodeFileA, NodeMerged(MergedTwoLines)>>,
     <<NodeBareDir, NodeMerged(MergedOneLine), NodeDelete>>}

InitPath ==
    /\ dump \in ConsecutiveDumps(PathNodeLists)
    /\ cmd \in {Command(n, sel) : n \in {"pop", "swap"}, sel \in Selections}
    /\ Start

SpecPath == InitPath /\ [][Report]_vars

\* a path without its first segment
FirstSegmentRemoved(path) == Join(Tail(Split(path, <<"/">>)), <<"/">>)

\* a path of two segments or more with the first two exchanged
FirstTwoExchanged(path) ==
    LET parts == Split(path, <<"/">>)
    IN Join(<<parts[2], parts[1]>> \o SubSeq(parts, 3, Len(parts)), <<"/">>)

Depth(path) == Len(Split(path, <<"/">>))

\* a line of merge information, path:ranges, with its path, less the slash
\* it may begin with, replaced by one of the paths F gives for it; the
\* slash is kept or, where noslash allows it, left out
MergeLineRewritten(line, F(_), noslash) ==
    LET colon == LastIndexByte(line, ":")
        path == SubSeq(line, 1, colon - 1)
        ranges == SubSeq(line, colon, Len(line))
        rooted == HasPrefix(path, <<"/">>)
        core == IF rooted THEN Tail(path) ELSE path
    IN {lead \o F(core) \o ranges :
           lead \in (IF rooted THEN {<<"/">>} \cup (IF noslash THEN {<<>>} ELSE {})
                     ELSE {<<>>})}

\* the merge informations whose lines are, one by one, rewritings of the
\* lines of value
RECURSIVE MergeLinesRewritten(_, _, _)
MergeLinesRewritten(lines, ispop, acc) ==
    IF lines = <<>> THEN acc
    ELSE MergeLinesRewritten(
             Tail(lines), ispop,
             {a \o (IF a = <<>> THEN <<>> ELSE linesep) \o b :
                 a \in acc,
                 b \in IF ispop
                       THEN MergeLineRewritten(Head(lines), FirstSegmentRemoved, TRUE)
                       ELSE MergeLineRewritten(Head(lines), FirstTwoExchanged, FALSE)})

MergeinfoRewritten(value, ispop) ==
    MergeLinesRewritten(Split(value, linesep), ispop, {<<>>})

\* the property blocks of node nd with its merge information rewritten
PropsRewritten(nd, ispop) ==
    IF nd.props = <<>> THEN {<<>>}
    ELSE IF \E k \in 1..Len(nd.props[1]) : nd.props[1][k].key = sSvnMergeinfo
    THEN {PropBlock([k \in 1..Len(nd.props[1]) |->
                        IF nd.props[1][k].key = sSvnMergeinfo
                        THEN KV(sSvnMergeinfo, v) ELSE nd.props[1][k]]) :
             v \in MergeinfoRewritten(
                       (CHOOSE e \in {nd.props[1][k] : k \in 1..Len(nd.props[1])} :
                            e.key = sSvnMergeinfo).val, ispop)}
    ELSE {PropBlock(nd.props[1])}

\* the node of the input that a node written came from
InputNode(e) ==
    (CHOOSE r \in {dump.revs[k] : k \in 1..Len(dump.revs)} : r.num = e.rev).nodes[e.index]

\* the paths of a node written are those of its input node rewritten by F
PathsRewritten(e, F(_)) ==
    /\ payload(sNodePath, e.header).val = F(InputNode(e).path)
    /\ InputNode(e).copyfrom # <<>>
          => payload(sNodeCopyfromPath, e.header).val = F(InputNode(e).copyfrom[2])

\* the nodes of the selected revisions: revision and index
SelectedNodes ==
    {<<dump.revs[k].num, j>> : <<k, j>> \in
        {p \in (1..Len(dump.revs)) \X (1..3) :
            /\ p[2] <= Len(dump.revs[p[1]].nodes)
            /\ RangeContains(cmd.selection, dump.revs[p[1]].num)}}

WrittenFrom(rn) ==
    {i \in EmittedOf("node") : emitted[i].rev = rn[1] /\ emitted[i].index = rn[2]}

\* pop has written every node of the selected revisions, once, with the
\* first segment of its paths removed
PopRewritesNodePaths ==
    (pc = "done" /\ cmd.name = "pop")
        => \A rn \in SelectedNodes :
              /\ Cardinality(WrittenFrom(rn)) = 1
              /\ \A i \in WrittenFrom(rn) : PathsRewritten(emitted[i], FirstSegmentRemoved)

\* C27: when pop has ended, it has written every node of the selected
\* revisions with the first segment removed from its Node-path, from its
\* Node-copyfrom-path and from the path of every line of its
\* svn:mergeinfo, the ranges of the line and the other segments as they
\* were.
C27_PopRemovesFirstSegment ==
    (pc = "done" /\ cmd.name = "pop")
        => \A rn \in SelectedNodes :
              /\ Cardinality(WrittenFrom(rn)) = 1
              /\ \A i \in WrittenFrom(rn) :
                    /\ PathsRewritten(emitted[i], FirstSegmentRemoved)
                    /\ emitted[i].properties \in PropsRewritten(InputNode(emitted[i]), TRUE)

\* the nodes written from node rn of the input, the directories of the
\* standard layout that swap writes in place of the first node of revision 1
\* aside
SwappedFrom(rn) ==
    {i \in WrittenFrom(rn) :
        \A k \in 1..Len(swapHeader) : emitted[i].header # swapHeader[k].header}

\* swap has written the nodes of the selected revisions whose path has two
\* segments or more, once, with the first two segments of their paths
\* exchanged, and none of the others
SwapRewritesNodePaths ==
    (pc = "done" /\ cmd.name = "swap")
        => \A rn \in SelectedNodes \ {<<1, 1>>} :
              LET nd == InputNode([rev |-> rn[1], index |-> rn[2]])
              IN IF Depth(nd.path) < 2 THEN SwappedFrom(rn) = {}
                 ELSE /\ Cardinality(SwappedFrom(rn)) = 1
                      /\ \A i \in SwappedFrom(rn) :
                            PathsRewritten(emitted[i], FirstTwoExchanged)

\* C28: when swap has ended, it has dropped the nodes of the selected
\* revisions whose path has a single segment and written the others with
\* the first two segments exchanged in their Node-path, in their
\* Node-copyfrom-path and in the path of every line of their svn:mergeinfo,
\* so that exchanging them again gives the path of the input back (the
\* first node of revision 1, in whose place swap writes the standard layout,
\* aside).
C28_SwapExchangesSegments ==
    (pc = "done" /\ cmd.name = "swap")
        => \A rn \in SelectedNodes \ {<<1, 1>>} :
              LET nd == InputNode([rev |-> rn[1], index |-> rn[2]])
              IN IF Depth(nd.path) < 2 THEN SwappedFrom(rn) = {}
                 ELSE /\ Cardinality(SwappedFrom(rn)) = 1
                      /\ \A i \in SwappedFrom(rn) :
                            /\ PathsRewritten(emitted[i], FirstTwoExchanged)
                            /\ FirstTwoExchanged(payload(sNodePath, emitted[i].header).val)
                                   = nd.path
                            /\ emitted[i].properties \in PropsRewritten(nd, FALSE)

(***************************************************************************)
(* The name sequence of obscure, with rings of three colors and three      *)
(* items: tokens are handed to obscureString one after the other.          *)
(***************************************************************************)
MaxCalls == 12        \* calls of obscureString in a run

\* the tokens of TestNameSequenceLength
NameTokens ==
    << <<"a">>, <<"b">>, <<"c">>, <<"d">>, <<"e">>, <<"f">>, <<"g">>, <<"h">>, <<"i">>,
       <<"j">> >>

\* the names of rings of three colors and three items
RingSize == 3 * 3

\* what is known of the name of a token: the token, the name it got first
\* and the name it got last
Named(token, first, last) ==
    [Printed("name", 0, 0, first) EXCEPT !.content = token, !.trailer = last]

\* one call of seq.obscureString(s): s is a token that was given before, or
\* the next token that was not; the sequence is kept in hk.namemap
obscureStringCall ==
    /\ pc = "obscure"
    /\ run.n < MaxCalls
    /\ \E k \in 1..Len(NameTokens) :
          /\ k <= Len(emitted) + 1
          /\ LET Call(s, o) ==
                     /\ input' = s
                     /\ hk' = [hk EXCEPT !.namemap = o.namemap]
                     /\ emitted' = IF k <= Len(emitted)
                                   THEN [emitted EXCEPT ![k].trailer = o.val]
                                   ELSE Append(emitted, Named(s, o.val, o.val))
             IN Call(NameTokens[k], obscureString(hk.namemap, NameTokens[k]))
    /\ run' = [run EXCEPT !.n = @ + 1]
    /\ UNCHANGED <<lbs, out, pc, cmd, ds, rp, dump>>

InitNames ==
    /\ input = <<>>
    /\ lbs = NewLineBufferedSource
    /\ ds = NewDumpfileSource
    /\ out = <<>>
    /\ pc = "obscure"
    /\ rp = NoLocals
    /\ hk = NoHookState
    /\ emitted = <<>>
    /\ dump = [revs |-> <<>>]
    /\ cmd = Command("obscure", Range(<< <<0, HEAD>> >>))
    /\ run = [n |-> 0, outs |-> <<>>]

SpecNames == InitNames /\ [][obscureStringCall]_vars

\* C29: a token gets the same name every time it is given; the first nine
\* distinct tokens, as many as the rings of three and three hold, get
\* names that differ from each other; and the tenth distinct token gets the
\* name of the first with the suffix 1.
C29_NameSequence ==
    /\ \A i \in 1..Len(emitted) : emitted[i].trailer = emitted[i].header
    /\ \A i, j \in 1..Len(emitted) :
          (i < j /\ j <= RingSize) => emitted[i].header # emitted[j].header
    /\ Len(emitted) > RingSize
          => emitted[RingSize + 1].header = emitted[1].header \o <<"1">>

\* C29, witness: ten distinct tokens were given, and then the first and the
\* tenth again
C29_Witness ==
    /\ Len(emitted) = RingSize + 1
    /\ run.n = MaxCalls
    /\ input = NameTokens[1]
    /\ emitted[1].trailer = emitted[1].header
    /\ emitted[RingSize + 1].header = emitted[1].header \o <<"1">>

(***************************************************************************)
(* NewSubversionRange: a range specification parsed, and the nodes of a    *)
(* repository asked for one by one, as TestSubversionRange does.           *)
(***************************************************************************)
sHEAD == <<"H","E","A","D">>

\* NewSubversionRange, its loop from item i on; ok is FALSE when it croaks.
\* The errors of strconv.Atoi are dropped: what is not a number counts as 0.
RECURSIVE NewSubversionRangeLoop(_, _, _, _)
NewSubversionRangeLoop(items, i, upperbound, intervals) ==
    LET item == items[i]
        fields == Split(item, <<":">>)
        parts == IF IndexByte(item, ":", 1) # 0
                 THEN <<Atoi(fields[1]).val,
                        IF fields[2] = sHEAD THEN MaxInt32 ELSE Atoi(fields[2]).val>>
                 ELSE <<Atoi(item).val, Atoi(item).val>>
    IN IF i > Len(items) THEN [ok |-> TRUE, intervals |-> intervals]
       ELSE IF IndexByte(item, "-", 1) # 0 THEN [ok |-> FALSE, intervals |-> intervals]
       ELSE IF IndexByte(item, ":", 1) # 0 /\ fields[1] = sHEAD
       THEN [ok |-> FALSE, intervals |-> intervals]
       ELSE IF parts[1] >= upperbound
       THEN NewSubversionRangeLoop(items, i + 1, parts[1], Append(intervals, parts))
       ELSE [ok |-> FALSE, intervals |-> intervals]

NewSubversionRange(txt) == NewSubversionRangeLoop(Split(txt, <<",">>), 1, 0, <<>>)

\* ContainsNode: is node `node` of revision rev in the range?  An endpoint
\* that is a revision stands for its first node as a lower and for its last
\* node as an upper endpoint, and a revision is all the intervals hold.
ContainsNode(s, rev, node) ==
    \E i \in 1..Len(s.intervals) :
        /\ rev >= s.intervals[i][1]
        /\ rev <= s.intervals[i][2]

\* the range specifications of TestSubversionRange, and some more
RangeSpecs ==
    {<<"1">>, <<"2">>, <<"3">>, <<"4">>, <<"1",":","2">>, <<"2",".","2",":","3">>,
     <<"2",".","1",":","2",".","2">>, <<"2",".","1",":","3",".","1">>,
     <<"2",".","2",":","3",".","1">>, <<"0",":","1">>, <<"2",",","2",".","3">>,
     <<"2",".","1",",","2",".","3">>, <<"2",".","1",",","3">>,
     <<"0",":">> \o sHEAD, <<"2",":">> \o sHEAD, <<"0",",","2",":","3">>,
     <<"1","-","2">>, sHEAD \o <<":","3">>, <<"3",",","1">>}

\* the nodes of the revisions 0, 1, 2, ...: as many as nodecounts says
NodeCounts == {<<0, 1, 3, 2>>, <<1, 2, 0, 1>>}

\* the nodes in the order the test asks for them: <<revision, node>>
RECURSIVE RevNodes(_, _)
RevNodes(nodecounts, r) ==
    IF r >= Len(nodecounts) THEN <<>>
    ELSE [n \in 1..nodecounts[r + 1] |-> <<r, n>>] \o RevNodes(nodecounts, r + 1)

\* the range specification is parsed
rangeParse ==
    /\ pc = "main"
    /\ cmd.name = "range"
    /\ LET Parsed(s) ==
               IF s.ok
               THEN /\ cmd' = [cmd EXCEPT !.selection = Range(s.intervals)]
                    /\ pc' = "contains"
               ELSE /\ cmd' = cmd
                    /\ pc' = "failed"
       IN Parsed(NewSubversionRange(input))
    /\ UNCHANGED <<input, lbs, out, ds, rp, hk, emitted, dump, run>>

\* the next node is asked for; run.n counts the nodes asked for, run.outs
\* holds those that were in the range
rangeContainsNode ==
    /\ pc = "contains"
    /\ LET nodes == RevNodes(dump.nodecounts, 0)
       IN IF run.n > Len(nodes)
          THEN /\ pc' = "done"
               /\ UNCHANGED <<run, ds>>
          ELSE /\ pc' = pc
               /\ ds' = [ds EXCEPT !.Revision = nodes[run.n][1], !.Index = nodes[run.n][2]]
               /\ run' = [n |-> run.n + 1,
                          outs |-> IF ContainsNode(cmd.selection, nodes[run.n][1],
                                                   nodes[run.n][2])
                                   THEN Append(run.outs, nodes[run.n]) ELSE run.outs]
    /\ UNCHANGED <<input, lbs, out, cmd, rp, hk, emitted>>
    /\ dump' = dump

InitRange ==
    /\ input \in RangeSpecs
    /\ dump \in {[revs |-> <<>>, nodecounts |-> nc] : nc \in NodeCounts}
    /\ cmd = Command("range", Range(<<>>))
    /\ lbs = NewLineBufferedSource
    /\ ds = NewDumpfileSource
    /\ out = <<>>
    /\ pc = "main"
    /\ rp = NoLocals
    /\ hk = NoHookState
    /\ emitted = <<>>
    /\ run = [n |-> 1, outs |-> <<>>]

SpecRange == InitRange /\ [][rangeParse \/ rangeContainsNode]_vars

\* an endpoint revision or revision.node as the pair it stands for: a
\* revision alone is its node `bare`
Endpoint(txt, bare) ==
    LET f == Split(txt, <<".">>)
    IN IF txt = sHEAD THEN <<MaxInt32, bare>>
       ELSE IF Len(f) = 1 THEN <<Atoi(txt).val, bare>>
       ELSE <<Atoi(f[1]).val, Atoi(f[2]).val>>

NotAfter(a, b) == a[1] < b[1] \/ (a[1] = b[1] /\ a[2] <= b[2])

\* node rn is, in the order of revisions and of nodes in a revision, between
\* the endpoints of an item of the range specification; 0 is before the
\* first node of a revision and MaxInt32 after its last
InItems(txt, rn) ==
    \E item \in {Split(txt, <<",">>)[k] : k \in 1..Len(Split(txt, <<",">>))} :
        LET f == Split(item, <<":">>)
        IN /\ NotAfter(Endpoint(f[1], 0), rn)
           /\ NotAfter(rn, Endpoint(f[Len(f)], MaxInt32))

\* C30: when every node was asked for, the nodes found in the range are
\* those between the lower and the upper endpoint of one of its items, an
\* endpoint being a revision or a node of a revision.
C30_RangeSelectsNodes ==
    pc = "done" /\ cmd.name = "range"
        => run.outs = SelectSeq(RevNodes(dump.nodecounts, 0), LAMBDA rn : InItems(input, rn))

\* the same for the range specifications whose endpoints are revisions
RangeOfRevisions ==
    (pc = "done" /\ cmd.name = "range" /\ IndexByte(input, ".", 1) = 0)
        => run.outs = SelectSeq(RevNodes(dump.nodecounts, 0), LAMBDA rn : InItems(input, rn))

(***************************************************************************)
(* SetLength on the headers of nodes, as TestSetLength calls it.           *)
(***************************************************************************)
SetLengthNodes ==
    {NodeFileA, NodeFileB, NodeDir, NodeBareDir, NodeDelete, NodeLink, NodeNested,
     NodeCopy, NodeEmptyFile, NodeReplace}

SetLengthValues == {0, 7, 23}

\* one call SetLength(header, data, val): data is input, header and val are
\* in cmd, the result goes to out
setLengthCall ==
    /\ pc = "main"
    /\ cmd.name = "SetLength"
    /\ out' = SetLength(cmd.propnames[1], input, cmd.base)
    /\ pc' = "done"
    /\ UNCHANGED <<input, lbs, cmd, ds, rp, hk, emitted, dump, run>>

InitSetLength ==
    /\ input \in {NodeHeader(nd) : nd \in SetLengthNodes}
    /\ cmd \in {[[base |-> val] @@ Command("SetLength", Range(<< <<0, HEAD>> >>))
                    EXCEPT !.propnames = <<name>>] :
                   val \in SetLengthValues, name \in {sTextContent, sPropContent, sContent}}
    /\ dump = [revs |-> <<>>]
    /\ lbs = NewLineBufferedSource
    /\ ds = NewDumpfileSource
    /\ out = <<>>
    /\ rp = NoLocals
    /\ hk = NoHookState
    /\ emitted = <<>>
    /\ pc = "main"
    /\ run = [n |-> 1, outs |-> <<>>]

SpecSetLength == InitSetLength /\ [][setLengthCall]_vars

\* the place in data where a line begins with "name-length: ", or 0
LengthLineAt(name, data) ==
    LET lit == name \o sLengthColon \o <<" ">>
        at == {k \in 1..Len(data) : (k = 1 \/ data[k - 1] = "\n") /\ HasPrefixAt(data, k, lit)}
    IN IF at = {} THEN 0 ELSE CHOOSE k \in at : \A j \in at : k <= j

\* data with the value of its name-length line set to val
LengthLineSet(name, data, val) ==
    LET k == LengthLineAt(name, data)
        nl == IndexByte(data, "\n", k)
    IN SubSeq(data, 1, k + Len(name) + Len(sLengthColon)) \o Itoa(val)
       \o SubSeq(data, nl, Len(data))

\* data with the line name-length: val added after its last header line
LengthLineAdded(name, data, val) ==
    SubSeq(data, 1, Len(data) - 1) \o name \o sLengthColon \o <<" ">> \o Itoa(val)
    \o linesep \o linesep

\* SetLength has changed only the value of the length line that was there
SetLengthOfPresent ==
    (pc = "done" /\ cmd.name = "SetLength" /\ LengthLineAt(cmd.propnames[1], input) # 0)
        => out = LengthLineSet(cmd.propnames[1], input, cmd.base)

\* C31: SetLength gives the length line that is there the value val and
\* leaves every other byte; where there is none it adds the line after the
\* header lines, before the blank line, when val is not 0, and returns the
\* data as they were when val is 0.
C31_SetLengthSetsOrAdds ==
    (pc = "done" /\ cmd.name = "SetLength")
        => out = IF LengthLineAt(cmd.propnames[1], input) # 0
                 THEN LengthLineSet(cmd.propnames[1], input, cmd.base)
                 ELSE IF cmd.base # 0
                 THEN LengthLineAdded(cmd.propnames[1], input, cmd.base)
                 ELSE input

(***************************************************************************)
(* The ranges of merge information: parsed, optimized and written again,   *)
(* as TestOptimizeRange does.                                              *)
(***************************************************************************)
MaxMergeRev == 5      \* largest revision of a range of merge information
MaxMergeItems == 3    \* items of a range of merge information

\* parseMergeinfoRange: the items a-b and a of a comma-separated list as
\* intervals
parseMergeinfoRange(txt) ==
    LET items == Split(txt, <<",">>)
    IN Range([k \in 1..Len(items) |->
                 LET f == Split(items[k], <<"-">>)
                 IN <<Atoi(f[1]).val, Atoi(f[Len(f)]).val>>])

\* Optimize, its pass over the intervals from the i-th on: cur is the
\* interval being grown, acc those that are finished
RECURSIVE OptimizeFrom(_, _, _, _)
OptimizeFrom(ivs, i, cur, acc) ==
    IF i > Len(ivs) THEN Append(acc, cur)
    ELSE IF ivs[i][1] <= cur[2] + 1
    THEN OptimizeFrom(ivs, i + 1,
                      <<cur[1], IF ivs[i][2] > cur[2] THEN ivs[i][2] ELSE cur[2]>>, acc)
    ELSE OptimizeFrom(ivs, i + 1, ivs[i], Append(acc, cur))

\* an Optimize that merges only the intervals that overlap
RECURSIVE OptimizeOverlapping(_, _, _, _)
OptimizeOverlapping(ivs, i, cur, acc) ==
    IF i > Len(ivs) THEN Append(acc, cur)
    ELSE IF ivs[i][1] <= cur[2]
    THEN OptimizeOverlapping(ivs, i + 1,
                      <<cur[1], IF ivs[i][2] > cur[2] THEN ivs[i][2] ELSE cur[2]>>, acc)
    ELSE OptimizeOverlapping(ivs, i + 1, ivs[i], Append(acc, cur))

Optimize_overlapping(s) ==
    IF s.intervals = <<>> THEN s
    ELSE Range(OptimizeOverlapping(s.intervals, 2, s.intervals[1], <<>>))

\* Optimize: adjacent and overlapping intervals merged
Optimize(s) ==
    IF s.intervals = <<>> THEN s
    ELSE Range(OptimizeFrom(s.intervals, 2, s.intervals[1], <<>>))

\* dump(rangesep): the intervals as text, an interval of one revision as a
\* single number
dumpRange(s, rangesep) ==
    Join([k \in 1..Len(s.intervals) |->
             IF s.intervals[k][1] = s.intervals[k][2] THEN Itoa(s.intervals[k][1])
             ELSE Itoa(s.intervals[k][1]) \o rangesep \o Itoa(s.intervals[k][2])],
         <<",">>)

optimizeParse ==
    /\ pc = "main"
    /\ cmd.name = "optimize"
    /\ cmd' = [cmd EXCEPT !.selection = parseMergeinfoRange(input)]
    /\ pc' = "parsed"
    /\ UNCHANGED <<input, lbs, out, ds, rp, hk, emitted, dump, run>>

optimizeOptimize ==
    /\ pc = "parsed"
    /\ cmd' = [cmd EXCEPT !.selection = Optimize(cmd.selection)]
    /\ pc' = "optimized"
    /\ UNCHANGED <<input, lbs, out, ds, rp, hk, emitted, dump, run>>

optimizeDump ==
    /\ pc = "optimized"
    /\ out' = dumpRange(cmd.selection, <<"-">>)
    /\ pc' = "done"
    /\ UNCHANGED <<input, lbs, cmd, ds, rp, hk, emitted, dump, run>>

optimizeRange == optimizeParse \/ optimizeOptimize \/ optimizeDump

\* the ways an interval is written: a-b, and a for an interval of one
MergeItemTexts(iv) ==
    {Itoa(iv[1]) \o <<"-">> \o Itoa(iv[2])} \cup (IF iv[1] = iv[2] THEN {Itoa(iv[1])} ELSE {})

MergeIntervals == {iv \in (1..MaxMergeRev) \X (1..MaxMergeRev) : iv[1] <= iv[2]}

\* the ranges of up to MaxMergeItems items in the order of their lower ends
RECURSIVE MergeRangeTexts(_, _)
MergeRangeTexts(n, low) ==
    IF n = 0 THEN {<<>>}
    ELSE UNION {{t \o (IF rest = <<>> THEN <<>> ELSE <<",">> \o rest) :
                    t \in MergeItemTexts(iv),
                    rest \in MergeRangeTexts(n - 1, iv[1])} :
                iv \in {v \in MergeIntervals : v[1] >= low}}
         \cup {<<>>}

InitOptimize ==
    /\ input \in MergeRangeTexts(MaxMergeItems, 1) \ {<<>>}
    /\ cmd = Command("optimize", Range(<<>>))
    /\ dump = [revs |-> <<>>]
    /\ lbs = NewLineBufferedSource
    /\ ds = NewDumpfileSource
    /\ out = <<>>
    /\ rp = NoLocals
    /\ hk = NoHookState
    /\ emitted = <<>>
    /\ pc = "main"
    /\ run = [n |-> 1, outs |-> <<>>]

SpecOptimize == InitOptimize /\ [][optimizeRange]_vars

\* the revisions a range text names
RevisionsOf(txt) ==
    UNION {LET f == Split(Split(txt, <<",">>)[k], <<"-">>)
           IN Atoi(f[1]).val..Atoi(f[Len(f)]).val : k \in 1..Len(Split(txt, <<",">>))}

\* the longest runs of consecutive revisions in a set, in increasing order
RunsOf(revs) ==
    LET runs == {iv \in revs \X revs :
                    /\ iv[1] <= iv[2]
                    /\ \A r \in iv[1]..iv[2] : r \in revs
                    /\ (iv[1] - 1) \notin revs
                    /\ (iv[2] + 1) \notin revs}
        nth(k) == CHOOSE iv \in runs : Cardinality({v \in runs : v[1] < iv[1]}) = k - 1
    IN [k \in 1..Cardinality(runs) |-> nth(k)]

\* a run as it is written: a-b, or a for a run of one revision
RunText(iv) ==
    IF iv[1] = iv[2] THEN Itoa(iv[1]) ELSE Itoa(iv[1]) \o <<"-">> \o Itoa(iv[2])

\* C32: a range optimized and written covers the revisions the range read
\* covered with the least number of intervals, the longest runs of
\* consecutive revisions, in increasing order, a run of one revision written
\* as a single number.
C32_OptimizeMergesAdjacent ==
    pc = "done" /\ cmd.name = "optimize"
        => out = Join([k \in 1..Len(RunsOf(RevisionsOf(input))) |->
                          RunText(RunsOf(RevisionsOf(input))[k])], <<",">>)

\* C32, witness: 1-1,2-2,3-3 was read and 1-3 written
C32_Witness ==
    /\ pc = "done"
    /\ cmd.name = "optimize"
    /\ input = <<"1","-","1",",","2","-","2",",","3","-","3">>
    /\ out = <<"1","-","3">>

(***************************************************************************)
(* NewSubversionRange on range specifications of every shape.              *)
(***************************************************************************)
MaxEndpoint == 3      \* largest revision written in a range specification
MaxItems == 2         \* items of a range specification

EndpointTexts == {Itoa(n) : n \in 0..MaxEndpoint} \cup {sHEAD}

ItemTexts ==
    EndpointTexts
    \cup {a \o <<":">> \o b : a \in EndpointTexts, b \in EndpointTexts}
    \cup {<<"1","-","2">>}

RECURSIVE ItemLists(_)
ItemLists(n) ==
    IF n = 1 THEN ItemTexts
    ELSE ItemLists(n - 1) \cup {l \o <<",">> \o t : l \in ItemLists(n - 1), t \in ItemTexts}

InitRangeParse ==
    /\ input \in ItemLists(MaxItems)
    /\ dump = [revs |-> <<>>]
    /\ cmd = Command("range", Range(<<>>))
    /\ lbs = NewLineBufferedSource
    /\ ds = NewDumpfileSource
    /\ out = <<>>
    /\ pc = "main"
    /\ rp = NoLocals
    /\ hk = NoHookState
    /\ emitted = <<>>
    /\ run = [n |-> 1, outs |-> <<>>]

SpecRangeParse == InitRangeParse /\ [][rangeParse]_vars

\* the items of a range specification
ItemsOf(txt) == Split(txt, <<",">>)

\* an item is a revision, a:b with a <= b, or a:HEAD
ItemWellFormed(item) ==
    LET f == Split(item, <<":">>)
    IN /\ IndexByte(item, "-", 1) = 0
       /\ Len(f) <= 2
       /\ Atoi(f[1]).ok
       /\ Len(f) = 2 => (f[2] = sHEAD \/ (Atoi(f[2]).ok /\ Atoi(f[1]).val <= Atoi(f[2]).val))

ItemLow(item) == Atoi(Split(item, <<":">>)[1]).val

ItemHigh(item) ==
    LET f == Split(item, <<":">>)
    IN IF f[Len(f)] = sHEAD THEN MaxInt32 ELSE Atoi(f[Len(f)]).val

\* a well-formed range specification: well-formed items, each one wholly
\* after the one before it
WellFormedRange(txt) ==
    /\ \A k \in 1..Len(ItemsOf(txt)) : ItemWellFormed(ItemsOf(txt)[k])
    /\ \A k \in 1..(Len(ItemsOf(txt)) - 1) :
          ItemHigh(ItemsOf(txt)[k]) < ItemLow(ItemsOf(txt)[k + 1])

\* a sorted list of disjoint closed intervals
SortedDisjoint(s) ==
    /\ \A k \in 1..Len(s.intervals) : s.intervals[k][1] <= s.intervals[k][2]
    /\ \A k \in 1..(Len(s.intervals) - 1) : s.intervals[k][2] < s.intervals[k + 1][1]

\* C33: a range specification that NewSubversionRange has accepted is
\* well-formed: no hyphen, HEAD only as the upper end of a:HEAD, every
\* item a:b with a <= b and wholly after the item before it; and the range
\* built is a sorted list of disjoint intervals whose Upperbound no
\* interval goes beyond.
C33_AcceptedRangeWellFormed ==
    (pc = "contains" /\ cmd.name = "range")
        => /\ WellFormedRange(input)
           /\ SortedDisjoint(cmd.selection)
           /\ \A k \in 1..Len(cmd.selection.intervals) :
                 cmd.selection.intervals[k][2] <= Upperbound(cmd.selection)

\* what NewSubversionRange does reject: a hyphen, HEAD as the lower end of
\* a:b, and a lower end below the lower end of the item before
RangeRejectedAsCoded ==
    (pc \in {"contains", "failed"} /\ cmd.name = "range")
        => (pc = "failed"
              <=> \/ \E k \in 1..Len(ItemsOf(input)) :
                        \/ IndexByte(ItemsOf(input)[k], "-", 1) # 0
                        \/ /\ IndexByte(ItemsOf(input)[k], ":", 1) # 0
                           /\ Split(ItemsOf(input)[k], <<":">>)[1] = sHEAD
                  \/ \E k \in 1..(Len(ItemsOf(input)) - 1) :
                        ItemLow(ItemsOf(input)[k + 1]) < ItemLow(ItemsOf(input)[k]))

\* C36: on a well-formed dump and a well-formed range a command that runs
\* Report never ends with a parse error: it has not exited with status 1,
\* nor does it wait for input that cannot come.
C36_ReportEndsWithSuccess == pc # "failed" /\ lbs.st = "ok"

(***************************************************************************)
(* Truncated input: Report on every prefix of a dump, the whole dump       *)
(* included.  dump is the dump the input was cut from.                     *)
(***************************************************************************)
TruncatedDump ==
    [revs |-> <<[num |-> 0, props |-> RevProps(0), nodes |-> <<>>],
                [num |-> 1, props |-> RevProps(1), nodes |-> <<NodeFileA, NodeFileB>>],
                [num |-> 2, props |-> RevProps(2), nodes |-> <<NodeCopy>>]>>]

TruncatedCommands ==
    {[Command("propdel", Range(<< <<0, HEAD>> >>)) EXCEPT !.propnames = << <<"q">> >>],
     [Command("setlog", Range(<< <<0, HEAD>> >>)) EXCEPT
         !.comments = NewLogfile(<<LogEntry(1, <<"A", "l">>, <<"n", "e", "w">>),
                                   LogEntry(2, <<"B", "o">>, <<"o", "l", "d">>)>>,
                                 Range(<< <<0, HEAD>> >>))]}

InitTruncated ==
    /\ dump = TruncatedDump
    /\ input \in {SubSeq(DumpBytes(TruncatedDump), 1, k) :
                    k \in 0..Len(DumpBytes(TruncatedDump))}
    /\ cmd \in TruncatedCommands
    /\ lbs = NewLineBufferedSource
    /\ ds = NewDumpfileSource
    /\ out = <<>>
    /\ pc = "main"
    /\ rp = NoLocals
    /\ hk = NoHookState
    /\ emitted = <<>>
    /\ run = [n |-> 1, outs |-> <<>>]

NextTruncated == Report \/ ReportParseError

SpecTruncated == InitTruncated /\ [][NextTruncated]_vars

\* the nodes the dump holds for revision num
NodesOfRevision(d, num) ==
    IF \E i \in 1..Len(d.revs) : d.revs[i].num = num
    THEN d.revs[CHOOSE i \in 1..Len(d.revs) : d.revs[i].num = num].nodes
    ELSE <<>>

\* the nodes written of revision num, by the number the source gave them
NodesWritten(num) ==
    {emitted[j].index : j \in {i \in EmittedOf("node") : emitted[i].rev = num}}

\* C34: when the run has exited with a fatal error, what it has written ends
\* at a revision boundary: of every revision whose header was written, every
\* node was written too (the commands of this specification drop no node).
C34_NoPartialRevision ==
    (pc = "failed" /\ lbs.st = "fatal")
        => \A i \in EmittedOf("revision") :
              NodesWritten(emitted[i].rev)
                  = 1..Len(NodesOfRevision(dump, emitted[i].rev))

\* what holds instead: a revision is written as far as it was read; the
\* nodes written of it are the first ones, without a gap
WrittenAsFarAsRead ==
    \A i \in EmittedOf("revision") :
        \E n \in 0..Len(NodesOfRevision(dump, emitted[i].rev)) :
            NodesWritten(emitted[i].rev) = 1..n

\* C35: a Read(n) that has returned has handed out exactly the next n
\* bytes, and a Read(n) on a source that ends before n bytes does not wait
\* forever: no run is left waiting in Read.
C35_ReadTerminates == lbs.st # "hang"

\* what holds instead: the run is left in Read exactly when the input ends
\* inside the value of a property or inside the content of a node
HangsOnlyInTruncatedBody ==
    lbs.st = "hang" => (pc = "failed" /\ Len(input) < Len(DumpBytes(dump)))

\* C37: throughout a run of Report the pushback slot holds at most one line
\* and no buffered line is lost: Peek, Push and Read were never called while
\* the slot held a line, and as long as the reader has input left the line
\* counter is the number of lines taken from the reader, a line that was
\* pushed back being counted once.
C37_PushbackDiscipline ==
    /\ ~lbs.overrun
    /\ \/ lbs.Linebuffer = <<>>
       \/ CountNl(lbs.Linebuffer) = 0
       \/ /\ CountNl(lbs.Linebuffer) = 1
          /\ lbs.Linebuffer[Len(lbs.Linebuffer)] = "\n"
    /\ lbs.pos <= Len(input)
          => lbs.linenumber = CountNl(SubSeq(input, 1, lbs.pos - 1))

\* the first line of revision 2 was read by Report, pushed back for
\* ReadRevisionHeader, and is counted once
C37_Witness ==
    /\ pc = "revision"
    /\ ds.Revision = 1
    /\ HasPrefix(lbs.Linebuffer, sRevisionNumber)
    /\ lbs.pos <= Len(input)
    /\ lbs.linenumber = CountNl(SubSeq(input, 1, lbs.pos - 1))
    /\ ~lbs.overrun

\* the entries of the history that are directory nodes swap has made up
SyntheticWritten == {i \in EmittedOf("node") : IsSynthetic(i)}

\* C38: swap writes its three synthetic directory nodes at most once in a
\* run: for revision 1 only and only when revision 1 is selected, in the
\* place of the first node of revision 1, right after the header of
\* revision 1 and so before any other node of it; and once revision 1 has
\* been written with a node, they have been written.
C38_SwapInjectsOnce ==
    cmd.name = "swap" =>
        /\ Cardinality(SyntheticWritten) <= Len(swapHeader)
        /\ \A i \in SyntheticWritten :
              /\ emitted[i].rev = 1
              /\ emitted[i].index = 1
              /\ RangeContains(cmd.selection, 1)
        /\ SyntheticWritten # {} =>
              \E k \in EmittedOf("revision") :
                  /\ emitted[k].rev = 1
                  /\ SyntheticWritten = (k + 1)..(k + Len(swapHeader))
                  /\ \A j \in 1..Len(swapHeader) :
                        emitted[k + j].header = swapHeader[j].header
        /\ \A i \in EmittedOf("node") :
              (emitted[i].rev = 1 /\ emitted[i].index = 1) => IsSynthetic(i)
        /\ (\E i \in EmittedOf("node") : emitted[i].rev = 1) => SyntheticWritten # {}

\* swap has ended on a selection with revision 1, whose first node it has
\* replaced and whose second node it has written with its path swapped
C38_Witness ==
    /\ cmd.name = "swap"
    /\ pc = "done"
    /\ Cardinality(SyntheticWritten) = Len(swapHeader)
    /\ \E i \in EmittedOf("node") :
          emitted[i].rev = 1 /\ emitted[i].index = 2 /\ ~IsSynthetic(i)
    /\ \E i \in EmittedOf("node") : emitted[i].rev = 2

(***************************************************************************)
(* pathrename: what it rewrites and what it leaves alone.                  *)
(***************************************************************************)
RenameNodeLists ==
    {<<>>, <<NodeFileB, NodeCopy>>, <<NodeBareDir, NodeMerged(MergedTwoLines)>>}

\* pathrename doc manual, whose FROM matches in paths of the input, and
\* pathrename zz y, whose FROM matches nowhere
RenameCommands(sel) ==
    {[Command("pathrename", sel) EXCEPT
         !.patterns = << <<"d", "o", "c">>, <<"m", "a", "n", "u", "a", "l">> >>],
     [Command("pathrename", sel) EXCEPT !.patterns = << <<"z", "z">>, <<"y">> >>]}

InitRename ==
    /\ dump \in ConsecutiveDumps(RenameNodeLists)
    /\ cmd \in UNION {RenameCommands(sel) : sel \in Selections}
    /\ Start

SpecRename == InitRename /\ [][Report]_vars

\* a path with what FROM matches in it replaced by TO
Renamed(path) == RegexpReplaceAll(cmd.patterns[1], path, cmd.patterns[2])

\* a line of merge information with its path renamed; a line without a
\* colon as it is
MergeLineRenamed(line) ==
    LET colon == LastIndexByte(line, ":")
    IN IF colon = 0 THEN line
       ELSE Renamed(SubSeq(line, 1, colon - 1)) \o SubSeq(line, colon, Len(line))

\* a value of svn:mergeinfo with the path of each of its lines renamed,
\* the line ends where they were
MergeValueRenamed(value) ==
    LET lines == Split(value, linesep)
    IN Join([k \in 1..Len(lines) |-> MergeLineRenamed(lines[k])], linesep)

\* a value of svn:mergeinfo as the revhook of mutatePaths writes it: every
\* line ended by a newline
MergeValueTerminated(value) ==
    IF value = <<>> \/ HasSuffix(value, linesep)
    THEN MergeValueRenamed(value) ELSE MergeValueRenamed(value) \o linesep

\* the node nd with its Node-path, its Node-copyfrom-path and the paths of
\* its svn:mergeinfo renamed; V(_) gives the value of svn:mergeinfo
NodeRenamed(nd, V(_)) ==
    [nd EXCEPT !.path = Renamed(@),
               !.copyfrom = IF @ = <<>> THEN @ ELSE <<@[1], Renamed(@[2])>>,
               !.props = IF @ = <<>> THEN @
                         ELSE << [k \in 1..Len(@[1]) |->
                                    IF @[1][k].t = "K" /\ @[1][k].key = sSvnMergeinfo
                                    THEN KV(sSvnMergeinfo, V(@[1][k].val))
                                    ELSE @[1][k]] >>]

\* the nodes of a revision as pathrename is to write them
NodesRenamed(nodes, V(_)) ==
    [j \in 1..Len(nodes) |->
        <<NodeHeader(NodeRenamed(nodes[j], V)), NodeProps(NodeRenamed(nodes[j], V)),
          NodeText(nodes[j])>>]

\* what pathrename has written of every selected revision: the header and
\* the property block of the revision, where written, as read, and its
\* nodes with the values V(_) for their merge information
RenameWrites(V(_)) ==
    \A k \in 1..Len(dump.revs) :
        RangeContains(cmd.selection, dump.revs[k].num) =>
            /\ \A i \in EmittedOf("revision") :
                  emitted[i].rev = dump.revs[k].num
                      => emitted[i].header \o emitted[i].properties \o emitted[i].trailer
                           = RevisionStash(dump.revs[k])
            /\ dump.revs[k].nodes # <<>>
                  => \E i \in EmittedOf("revision") : emitted[i].rev = dump.revs[k].num
            /\ EmittedNodeTexts(dump.revs[k].num) = NodesRenamed(dump.revs[k].nodes, V)

\* C39: when pathrename has ended, every selected revision is written as it
\* was read but for the text FROM matches in Node-path, in
\* Node-copyfrom-path and in the paths of the lines of svn:mergeinfo (and
\* the lengths that follow from it); so when FROM matches nowhere every
\* selected revision is written byte for byte, the values of svn:mergeinfo
\* included.
C39_RenameOnlyPaths ==
    (pc = "done" /\ cmd.name = "pathrename") => RenameWrites(MergeValueRenamed)

\* what holds instead: the value of svn:mergeinfo is written with a newline
\* after its last line, whether or not it had one
RenameAsCoded ==
    (pc = "done" /\ cmd.name = "pathrename") => RenameWrites(MergeValueTerminated)

\* strip leaves node nd alone: it has no content, or it is a symbolic link,
\* or patterns are given and none matches its path
StripLeaves(nd) ==
    \/ NodeText(nd) = <<>>
    \/ HasPrefix(NodeText(nd), sLink)
    \/ cmd.patterns # <<>> /\ ~MatchesAny(cmd.patterns, nd.path)

\* the cookie strip writes for the node at path in revision num
StripCookie(num, path) ==
    sRevisionIs \o Itoa(num) \o sFilePathIs \o path \o <<".", "\n">>

\* C40: when strip has ended, it has written every node of the selected
\* revisions, in order; a node without content, a node whose content begins
\* with "link " and a node whose path no pattern matches as read: header
\* with its checksum lines, properties and content; every other node with
\* its properties as read and the cookie naming its revision and its
\* Node-path as content.
C40_StripFrame ==
    (pc = "done" /\ cmd.name = "strip") =>
        \A k \in 1..Len(dump.revs) :
            RangeContains(cmd.selection, dump.revs[k].num) =>
                LET nodes == dump.revs[k].nodes
                    texts == EmittedNodeTexts(dump.revs[k].num)
                IN /\ Len(texts) = Len(nodes)
                   /\ \A j \in 1..Len(nodes) :
                         IF StripLeaves(nodes[j])
                         THEN texts[j] = <<NodeHeader(nodes[j]), NodeProps(nodes[j]),
                                           NodeText(nodes[j])>>
                         ELSE /\ texts[j][2] = NodeProps(nodes[j])
                              /\ texts[j][3] = StripCookie(dump.revs[k].num, nodes[j].path)

\* strip ^trunk has ended on a revision with the link trunk/l, written as
\* read, and the file doc/b, which the pattern does not match, written as
\* read, after a revision whose file trunk/a has the cookie as content
C40_Witness ==
    /\ pc = "done"
    /\ cmd.name = "strip"
    /\ cmd.patterns # <<>>
    /\ \E i \in EmittedOf("node") :
          /\ emitted[i].content = NodeText(NodeLink)
          /\ emitted[i].header = NodeHeader(NodeLink)
    /\ \E i \in EmittedOf("node") :
          /\ emitted[i].content = NodeText(NodeFileB)
          /\ emitted[i].header = NodeHeader(NodeFileB)
    /\ \E i \in EmittedOf("node") :
          emitted[i].content = StripCookie(emitted[i].rev, NodeFileA.path)

====
